---------------------------- MODULE Spec2Model ----------------------------
(***************************************************************************)
(* A model of the playlist generator (cmonagle/playlist-generator).        *)
(*                                                                         *)
(* Three specifications share this module:                                 *)
(*   Spec     PlaylistGenerator::generate_playlist (playlist/generator.rs) *)
(*   SeqSpec  PlaylistOrdering::create_optimal_sequence (playlist/utils.rs)*)
(*   FnSpec   the pure helpers (filters.rs, scoring.rs, transitions.rs),   *)
(*            each applied once to inputs drawn from bounded sets          *)
(*                                                                         *)
(* Conventions.                                                            *)
(*   Option<T>   None is <<>>, Some(x) is <<x>>.                           *)
(*   String      a sequence of one-character strings where the code looks  *)
(*               inside it (genres, patterns, ids); a title is a sequence  *)
(*               of words.                                                 *)
(*   f32         exact arithmetic: an integer count of thousandths         *)
(*               ("milli") where the code only adds and multiplies, a      *)
(*               fraction [num, den] where it divides by a configured      *)
(*               value.  log10, log2 and sqrt are tabulated or rounded to  *)
(*               the stated precision.  Rounding of f32 itself is not      *)
(*               modelled.                                                 *)
(***************************************************************************)
EXTENDS Integers, Sequences, FiniteSets, TLC

VARIABLES
    songs,                \* generate_playlist: the input pool (Vec<Song>)
    config,               \* generate_playlist: self.config
    target_length,        \* generate_playlist: Option<usize> argument
    playlist,             \* generate_playlist: the returned Playlist (None before)
    seq_songs,            \* create_optimal_sequence: the songs argument
    remaining,            \* create_optimal_sequence: candidates not yet selected
    selected,             \* create_optimal_sequence: the sequence built so far
    transition_rules,     \* create_optimal_sequence: &TransitionRules argument
    seq_target,           \* create_optimal_sequence: target_length (after min)
    best_candidate_index, \* create_optimal_sequence: index removed by the last step
    seq_pc,               \* create_optimal_sequence: position in the function
    call,                 \* FnSpec: the last call of a pure helper: fn, args, ret
    client_call,          \* SubsonicClient: the method being run and its arguments
    client_pc,            \* SubsonicClient: position in the method
    server_playlists,     \* the playlists the Subsonic server holds, in list order
    existing,             \* create/update: id of the existing playlist found
    fetch_all_songs,      \* fetch_songs: all_songs, the songs collected so far (ids)
    seen_ids,             \* fetch_songs: HashSet of the ids collected
    attempts,             \* fetch_songs: loop counter
    batch_requests,       \* number of getRandomSongs requests issued
    client_ret            \* SubsonicClient: the Result the method returned

vars == <<songs, config, target_length, playlist, seq_songs, remaining, selected,
          transition_rules, seq_target, best_candidate_index, seq_pc, call,
          client_call, client_pc, server_playlists, existing, fetch_all_songs,
          seen_ids, attempts, batch_requests, client_ret>>

genVars == <<songs, config, target_length, playlist>>
seqVars == <<seq_songs, remaining, selected, transition_rules, seq_target,
             best_candidate_index, seq_pc>>
clientVars == <<client_call, client_pc, server_playlists, existing,
                fetch_all_songs,
                seen_ids, attempts, batch_requests, client_ret>>

-----------------------------------------------------------------------------
(* Bounds of the model *)

MaxPool == 4

MaxTarget == 3

MaxSeqPool == 3

MaxTracks == 3

\* fetch_songs: the number of songs in the server's library (ids 1..MaxLibrary)
MaxLibrary == 600

\* The number of playlists on the server before a client call
MaxPlaylists == 2

-----------------------------------------------------------------------------
(* Option, sequences, arithmetic *)

None == <<>>

Some(x) == <<x>>

IsSome(o) == o # <<>>

Unwrap(o) == o[1]

Range(s) == {s[i] : i \in 1..Len(s)}

Min(a, b) == IF a <= b THEN a ELSE b

Max(a, b) == IF a >= b THEN a ELSE b

Abs(x) == IF x < 0 THEN -x ELSE x

RECURSIVE SumSeq(_)
SumSeq(s) == IF s = <<>> THEN 0 ELSE s[1] + SumSeq(Tail(s))

\* The sum of f over the set S.
RECURSIVE SumFn(_, _)
SumFn(f, S) ==
    IF S = {} THEN 0
    ELSE LET x == CHOOSE y \in S : TRUE
         IN  f[x] + SumFn(f, S \ {x})

SetMin(S) == CHOOSE x \in S : \A y \in S : x <= y

SetMax(S) == CHOOSE x \in S : \A y \in S : x >= y

\* All sequences without repetition of at most n elements of S.
RECURSIVE SeqsNoRepeat(_, _)
SeqsNoRepeat(S, n) ==
    IF n = 0 THEN {<<>>}
    ELSE LET shorter == SeqsNoRepeat(S, n - 1)
         IN  shorter \cup
             UNION {{Append(t, x) : x \in S \ Range(t)} :
                        t \in {u \in shorter : Len(u) = n - 1}}

\* Fractions: [num, den] with den >= 0.  A den of 0 is the f32 infinity of
\* the sign of num (a division by a zero max_bpm_jump).
Frac(n, d) == [num |-> n, den |-> d]

FracLe(a, b) == a.num * b.den <= b.num * a.den

FracLt(a, b) == a.num * b.den < b.num * a.den

FracAdd(a, b) == Frac(a.num * b.den + b.num * a.den, a.den * b.den)

FracHalf(a) == Frac(a.num, 2 * a.den)

-----------------------------------------------------------------------------
(* Strings: str::to_lowercase, starts_with, ends_with, contains,           *)
(* split_whitespace, trim, over sequences of characters (ASCII)            *)

UpperChars == <<"A", "B", "C", "D", "E", "F", "G", "H", "I", "J", "K", "L", "M", "N", "O", "P", "Q", "R", "S", "T", "U", "V", "W", "X", "Y", "Z">>

LowerChars == <<"a", "b", "c", "d", "e", "f", "g", "h", "i", "j", "k", "l", "m", "n", "o", "p", "q", "r", "s", "t", "u", "v", "w", "x", "y", "z">>

LowerOf == [c \in Range(UpperChars) |->
               LowerChars[CHOOSE i \in 1..Len(UpperChars) : UpperChars[i] = c]]

UpperOf == [c \in Range(LowerChars) |->
               UpperChars[CHOOSE i \in 1..Len(LowerChars) : LowerChars[i] = c]]

ToLowerChar(c) == IF c \in DOMAIN LowerOf THEN LowerOf[c] ELSE c

ToUpperChar(c) == IF c \in DOMAIN UpperOf THEN UpperOf[c] ELSE c

ToLowercase(s) == [i \in 1..Len(s) |-> ToLowerChar(s[i])]

StartsWith(s, p) == Len(p) <= Len(s) /\ SubSeq(s, 1, Len(p)) = p

EndsWith(s, p) == Len(p) <= Len(s) /\ SubSeq(s, Len(s) - Len(p) + 1, Len(s)) = p

Contains(s, p) ==
    \E i \in 0..(Len(s) - Len(p)) : SubSeq(s, i + 1, i + Len(p)) = p

IsWhitespace(c) == c = " "

IsNumeric(c) == c \in {"0", "1", "2", "3", "4", "5", "6", "7", "8", "9"}

\* The words of s: its maximal runs of non-whitespace characters.
SplitWhitespace(s) ==
    {SubSeq(s, i, j) : <<i, j>> \in
        {p \in (1..Len(s)) \X (1..Len(s)) :
            /\ p[1] <= p[2]
            /\ \A k \in p[1]..p[2] : ~IsWhitespace(s[k])
            /\ (p[1] = 1 \/ IsWhitespace(s[p[1] - 1]))
            /\ (p[2] = Len(s) \/ IsWhitespace(s[p[2] + 1]))}}

Trim(s) ==
    LET keep == {i \in 1..Len(s) : ~IsWhitespace(s[i])}
    IN  IF keep = {} THEN <<>> ELSE SubSeq(s, SetMin(keep), SetMax(keep))

-----------------------------------------------------------------------------
(* models.rs: Song *)

\* Song::get_all_genres: the single genre and the genres array, lowercased,
\* sorted and deduplicated (a set; no caller depends on the order).
get_all_genres(song) ==
    (IF IsSome(song.genre) THEN {ToLowercase(Unwrap(song.genre))} ELSE {})
    \cup
    (IF IsSome(song.genres)
     THEN {ToLowercase(g) : g \in Range(Unwrap(song.genres))}
     ELSE {})

\* Song::matches_genre_patterns_string
matches_genre_patterns_string(song, patterns) ==
    \E pattern \in Range(patterns) :
        \E genre \in get_all_genres(song) :
            Contains(ToLowercase(genre), ToLowercase(pattern))

-----------------------------------------------------------------------------
(* filters.rs: SongFilters (generator.rs repeats is_actual_song and         *)
(* matches_acceptable_genres word for word as methods of the generator)     *)

non_song_patterns ==
    <<<<"i", "n", "t", "e", "r", "l", "u", "d", "e">>,
      <<"i", "n", "t", "r", "o">>,
      <<"o", "u", "t", "r", "o">>,
      <<"p", "r", "e", "l", "u", "d", "e">>,
      <<"p", "o", "s", "t", "l", "u", "d", "e">>,
      <<"b", "r", "i", "d", "g", "e">>,
      <<"t", "r", "a", "n", "s", "i", "t", "i", "o", "n">>,
      <<"s", "e", "g", "u", "e">>,
      <<"s", "k", "e", "t", "c", "h">>,
      <<"f", "r", "a", "g", "m", "e", "n", "t">>,
      <<"s", "n", "i", "p", "p", "e", "t">>,
      <<"b", "i", "t", "s">>,
      <<"p", "i", "e", "c", "e">>,
      <<"m", "o", "n", "o", "l", "o", "g", "u", "e">>,
      <<"d", "i", "a", "l", "o", "g", "u", "e">>,
      <<"s", "p", "e", "e", "c", "h">>,
      <<"i", "n", "t", "e", "r", "v", "i", "e", "w">>,
      <<"c", "o", "n", "v", "e", "r", "s", "a", "t", "i", "o", "n">>,
      <<"d", "i", "s", "c", "u", "s", "s", "i", "o", "n">>,
      <<"a", "t", "m", "o", "s", "p", "h", "e", "r", "e">>,
      <<"s", "o", "u", "n", "d", "s", "c", "a", "p", "e">>,
      <<"f", "i", "e", "l", "d", " ", "r", "e", "c", "o", "r", "d", "i", "n", "g">>,
      <<"r", "a", "i", "n">>,
      <<"o", "c", "e", "a", "n">>,
      <<"w", "i", "n", "d">>,
      <<"n", "a", "t", "u", "r", "e", " ", "s", "o", "u", "n", "d", "s">>,
      <<"m", "e", "d", "i", "t", "a", "t", "i", "o", "n">>,
      <<"m", "a", "n", "t", "r", "a">>,
      <<"p", "r", "a", "y", "e", "r">>,
      <<"c", "h", "a", "n", "t">>,
      <<"s", "i", "l", "e", "n", "c", "e">>,
      <<"p", "a", "u", "s", "e">>,
      <<"b", "r", "e", "a", "k">>,
      <<"i", "n", "t", "e", "r", "m", "i", "s", "s", "i", "o", "n">>,
      <<"a", "n", "n", "o", "u", "n", "c", "e", "m", "e", "n", "t">>,
      <<"c", "o", "m", "m", "e", "r", "c", "i", "a", "l">>,
      <<"a", "d">>,
      <<"t", "e", "s", "t">>,
      <<"t", "e", "s", "t", "i", "n", "g">>,
      <<"t", "u", "n", "i", "n", "g">>,
      <<"i", "n", "t", ".">>,
      <<"i", "n", "t", "r", "o", ".">>,
      <<"o", "u", "t", "r", "o", ".">>,
      <<"i", "n", "t", "e", "r", "l", ".">>,
      <<"u", "n", "t", "i", "t", "l", "e", "d">>>>

\* The parenthetical markers of is_actual_song.
parenthetical_indicators ==
    {<<"(", "i", "n", "t", "e", "r", "l", "u", "d", "e", ")">>, <<"(", "i", "n", "t", "r", "o", ")">>, <<"(", "o", "u", "t", "r", "o", ")">>, <<"(", "s", "k", "e", "t", "c", "h", ")">>}

is_actual_song(song) ==
    LET title_lower == ToLowercase(song.title)
        contains_non_song_pattern ==
            \E k \in 1..Len(non_song_patterns) :
                LET pattern == non_song_patterns[k]
                IN  \/ title_lower = pattern
                    \/ StartsWith(title_lower, pattern \o <<" ">>)
                    \/ EndsWith(title_lower, <<" ">> \o pattern)
                    \/ Contains(title_lower, <<" ">> \o pattern \o <<" ">>)
                    \/ pattern \in SplitWhitespace(title_lower)
                    \/ StartsWith(title_lower, pattern \o <<":">>)
        too_short == IsSome(song.duration) /\ Unwrap(song.duration) < 60
        too_long == IsSome(song.duration) /\ Unwrap(song.duration) > 600
        trimmed == Trim(title_lower)
        is_just_number_or_short ==
            \/ Len(trimmed) <= 2
            \/ \A i \in 1..Len(trimmed) :
                   IsNumeric(trimmed[i]) \/ trimmed[i] = "." \/ trimmed[i] = "-"
        has_parenthetical_indicators ==
            \/ \E p \in parenthetical_indicators : Contains(title_lower, p)
            \/ /\ Contains(title_lower, <<"(", "i", "n", "s", "t", "r", "u", "m", "e", "n", "t", "a", "l", ")">>)
               /\ IsSome(song.duration) /\ Unwrap(song.duration) < 90
        is_track_number ==
            /\ StartsWith(title_lower, <<"t", "r", "a", "c", "k", " ">>)
            /\ \A i \in 7..Len(title_lower) :
                   IsNumeric(title_lower[i]) \/ IsWhitespace(title_lower[i])
    IN  /\ ~contains_non_song_pattern
        /\ ~too_short
        /\ ~too_long
        /\ ~is_just_number_or_short
        /\ ~has_parenthetical_indicators
        /\ ~is_track_number

matches_acceptable_genres(song, cfg) ==
    IF ~IsSome(cfg.acceptable_genres) THEN TRUE
    ELSE matches_genre_patterns_string(song, Unwrap(cfg.acceptable_genres))

\* A deny-list check that the allow-list overrides (what C7 rules out).
AllowListWins(song, cfg) ==
    \/ ~IsSome(cfg.unacceptable_genres)
    \/ IsSome(cfg.acceptable_genres) /\ matches_acceptable_genres(song, cfg)
    \/ ~matches_genre_patterns_string(song, Unwrap(cfg.unacceptable_genres))

does_not_match_unacceptable_genres(song, cfg) ==
    IF ~IsSome(cfg.unacceptable_genres) THEN TRUE
    ELSE ~matches_genre_patterns_string(song, Unwrap(cfg.unacceptable_genres))

matches_bpm_thresholds(song, cfg) ==
    IF ~IsSome(cfg.bpm_thresholds) THEN TRUE
    ELSE IF ~IsSome(song.bpm) THEN TRUE
    ELSE /\ Unwrap(song.bpm) >= Unwrap(cfg.bpm_thresholds).min_bpm
         /\ Unwrap(song.bpm) <= Unwrap(cfg.bpm_thresholds).max_bpm

\* play_counts.sort_unstable(): ascending order.
RECURSIVE InsertAsc(_, _)
InsertAsc(s, x) ==
    IF s = <<>> THEN <<x>>
    ELSE IF x <= Head(s) THEN <<x>> \o s
    ELSE <<Head(s)>> \o InsertAsc(Tail(s), x)

RECURSIVE SortAsc(_)
SortAsc(s) ==
    IF s = <<>> THEN <<>> ELSE InsertAsc(SortAsc(Tail(s)), Head(s))

\* (x * len) as usize for x in hundredths: truncated, and 0 when negative.
AsUsize(hundredths, len) ==
    IF hundredths <= 0 THEN 0 ELSE (hundredths * len) \div 100

\* play_counts.get(index).copied().unwrap_or(0), index counted from 0.
GetOrZero(s, index) == IF index < Len(s) THEN s[index + 1] ELSE 0

\* SongFilters::matches_play_count_filter.  The filter is
\* config.preference_weights.play_count_filter: None, or Some of a record
\* whose kind names the PlayCountFilter variant the match arm takes; percent
\* is in hundredths.
matches_play_count_filter(song, cfg, all_songs) ==
    IF cfg.preference_weights.play_count_filter = None THEN TRUE
    ELSE LET play_count_filter == Unwrap(cfg.preference_weights.play_count_filter)
             song_play_count ==
                 IF IsSome(song.play_count) THEN Unwrap(song.play_count) ELSE 0
         IN  CASE play_count_filter.kind = "None" -> TRUE
               [] play_count_filter.kind = "Exact" ->
                    IF IsSome(play_count_filter.count)
                    THEN song.play_count = Some(Unwrap(play_count_filter.count))
                    ELSE song.play_count = None
               [] play_count_filter.kind = "Range" ->
                    /\ IsSome(play_count_filter.min)
                       => song_play_count >= Unwrap(play_count_filter.min)
                    /\ IsSome(play_count_filter.max)
                       => song_play_count <= Unwrap(play_count_filter.max)
               [] play_count_filter.kind = "Threshold" ->
                    CASE play_count_filter.operator = "above" ->
                             song_play_count > play_count_filter.count
                      [] play_count_filter.operator = "below" ->
                             song_play_count < play_count_filter.count
                      [] play_count_filter.operator = "at_least" ->
                             song_play_count >= play_count_filter.count
                      [] play_count_filter.operator = "at_most" ->
                             song_play_count <= play_count_filter.count
                      [] OTHER -> TRUE
               [] play_count_filter.kind = "Percentile" ->
                    LET play_counts ==
                            SortAsc([i \in 1..Len(all_songs) |->
                                IF IsSome(all_songs[i].play_count)
                                THEN Unwrap(all_songs[i].play_count) ELSE 0])
                    IN  CASE play_count_filter.direction = "top" ->
                                 song_play_count >=
                                     GetOrZero(play_counts,
                                         AsUsize(100 - play_count_filter.percent,
                                                 Len(play_counts)))
                          [] play_count_filter.direction = "bottom" ->
                                 song_play_count <=
                                     GetOrZero(play_counts,
                                         AsUsize(play_count_filter.percent,
                                                 Len(play_counts)))
                          [] OTHER -> TRUE

should_include_song(song, cfg) ==
    /\ is_actual_song(song)
    /\ matches_acceptable_genres(song, cfg)
    /\ does_not_match_unacceptable_genres(song, cfg)
    /\ matches_bpm_thresholds(song, cfg)

-----------------------------------------------------------------------------
(* generator.rs: PlaylistGenerator.  Scores are in thousandths (milli).     *)
(* Configured weights: starred_boost, play_count_weight and                 *)
(* recency_penalty_weight are whole numbers, randomness_factor is in        *)
(* tenths, each quality weight is in hundredths.                            *)

\* f32::log10 of a play count, in thousandths (rounded), for the counts the
\* model uses.
Log10Milli(n) ==
    CASE n = 1 -> 0
      [] n = 2 -> 301
      [] n = 3 -> 477
      [] n = 4 -> 602
      [] n = 5 -> 699
      [] n = 10 -> 1000
      [] n = 50 -> 1699
      [] n = 100 -> 2000

\* parse_days_since_played, in half days.  A timestamp is [rfc3339, halfdays]:
\* whether DateTime::parse_from_rfc3339 accepts it, and how long ago it lies
\* (negative: in the future).  The two parse_from_str fallbacks name no
\* offset, and chrono's DateTime::parse_from_str fails without one, so every
\* other string ends in the "half a day ago" branch.
parse_days_since_played(played_str) ==
    IF played_str.rfc3339 THEN Max(played_str.halfdays, 0) ELSE 1

\* PlaylistGenerator::calculate_preference_score
gen_calculate_preference_score(song, cfg) ==
    LET weights == cfg.preference_weights
        starred == IF IsSome(song.starred) THEN 1000 * weights.starred_boost ELSE 0
        plays ==
            IF IsSome(song.play_count)
            THEN LET play_count == Unwrap(song.play_count)
                 IN  IF weights.discovery_mode
                     THEN IF play_count = 0 THEN 50000
                          ELSE IF play_count <= 2 THEN 30000 - play_count * 5000
                          ELSE 10000 - Min(Log10Milli(play_count), 10000) * 2
                     ELSE IF play_count = 0 THEN 0
                          ELSE Max(Log10Milli(play_count), 0) * weights.play_count_weight
            ELSE IF weights.discovery_mode THEN 25000 ELSE 0
        recency ==
            IF IsSome(song.played)
            THEN LET halfdays == parse_days_since_played(Unwrap(song.played))
                     threshold2 == IF weights.discovery_mode THEN 6 ELSE 14
                     multiplier == IF weights.discovery_mode THEN 2
                                   ELSE weights.recency_penalty_weight
                 IN  IF halfdays < threshold2
                     THEN (threshold2 - halfdays) * multiplier * 500
                     ELSE 0
            ELSE 0
        randomness_multiplier == IF weights.discovery_mode THEN 20 ELSE 10
        randomness ==
            (Len(song.id) % randomness_multiplier) * weights.randomness_factor * 100
    IN  starred + plays - recency + randomness

\* A truncate that cuts nothing, and an ordering that keeps only the first
\* track of each artist: the generator C1 and C5 rule out.
KeepAll(s, n) == s

RECURSIVE FirstOfEachArtist(_, _)
FirstOfEachArtist(s, score) ==
    IF s = <<>> THEN <<>>
    ELSE LET front == FirstOfEachArtist(SubSeq(s, 1, Len(s) - 1), score)
         IN  IF \E i \in 1..Len(front) : front[i].artist = s[Len(s)].artist
             THEN front
             ELSE Append(front, s[Len(s)])

\* A sort that leaves the tracks in pool order: what C25 rules out.
KeepOrder(s, score) == s

\* slice::sort_by with |a, b| score(b).partial_cmp(score(a)): a stable sort
\* into descending score (insertion keeps equal scores in input order).
RECURSIVE InsertByScore(_, _, _)
InsertByScore(sorted, song, score) ==
    IF sorted = <<>> THEN <<song>>
    ELSE IF score[sorted[1]] >= score[song]
         THEN <<sorted[1]>> \o InsertByScore(Tail(sorted), song, score)
         ELSE <<song>> \o sorted

\* score: a function from the songs of s to their scores.
RECURSIVE SortByScoreDesc(_, _)
SortByScoreDesc(s, score) ==
    IF s = <<>> THEN <<>>
    ELSE InsertByScore(SortByScoreDesc(SubSeq(s, 1, Len(s) - 1), score),
                       s[Len(s)], score)

\* Vec::truncate
Truncate(s, n) == IF Len(s) > n THEN SubSeq(s, 1, n) ELSE s

\* PlaylistGenerator::calculate_metadata.  average_bpm and avg_popularity are
\* in thousandths, rounded down.
gen_calculate_metadata(list) ==
    IF list = <<>>
    THEN [total_duration |-> 0, average_bpm |-> 0, bpm_range |-> <<0, 0>>,
          genre_distribution |-> <<>>, artist_count |-> 0,
          era_span |-> <<None, None>>, avg_popularity |-> 0]
    ELSE LET n == Len(list)
             bpmIdx == {i \in 1..n : IsSome(list[i].bpm)}
             bpms == {Unwrap(list[i].bpm) : i \in bpmIdx}
             genresOf == [i \in 1..n |-> get_all_genres(list[i])]
             allGenres == UNION {genresOf[i] : i \in 1..n}
             years == {Unwrap(list[i].year) : i \in {j \in 1..n : IsSome(list[j].year)}}
             \* iter().filter_map(|s| s.field).sum()
             durationSum == SumSeq([i \in 1..n |->
                 IF IsSome(list[i].duration) THEN Unwrap(list[i].duration) ELSE 0])
             bpmSum == SumSeq([i \in 1..n |->
                 IF IsSome(list[i].bpm) THEN Unwrap(list[i].bpm) ELSE 0])
             playSum == SumSeq([i \in 1..n |->
                 IF IsSome(list[i].play_count) THEN Unwrap(list[i].play_count) ELSE 0])
         IN  [total_duration |-> durationSum,
              average_bpm |-> IF bpmIdx = {} THEN 0
                              ELSE (1000 * bpmSum) \div Cardinality(bpmIdx),
              bpm_range |-> IF bpmIdx = {} THEN <<0, 0>>
                            ELSE <<SetMin(bpms), SetMax(bpms)>>,
              genre_distribution |->
                  [g \in allGenres |->
                      Cardinality({i \in 1..n : g \in genresOf[i]})],
              artist_count |-> Cardinality({list[i].artist : i \in 1..n}),
              era_span |-> IF years = {} THEN <<None, None>>
                           ELSE <<Some(SetMin(years)), Some(SetMax(years))>>,
              avg_popularity |-> (1000 * playSum) \div n]

\* A quality score without the empty-list case: the neutral 0.5 whatever the
\* list (the scorer C6 rules out).
NeutralQuality(list, metadata, cfg) == Frac(1, 2)

\* PlaylistGenerator::calculate_quality_score, as an exact fraction: the sum
\* of weight * sub-score over the six terms, not divided by the weights.
gen_calculate_quality_score(list, metadata, cfg) ==
    IF list = <<>> THEN Frac(0, 1)
    ELSE LET n == Len(list)
             weights == cfg.quality_weights
             \* (artist_count / len).min(1.0), over the denominator n
             artist_diversity_num == Min(metadata.artist_count, n)
             genre_coherence_score ==
                 IF Cardinality(DOMAIN metadata.genre_distribution) <= 5
                 THEN 1000 ELSE 500
             duration_consistency_score == 800
             era_cohesion_score == 700
             popularity_balance_score == 600
             bpm_transition_score == 750
         IN  Frac(weights.artist_diversity * 1000 * artist_diversity_num
                  + n * ( weights.bpm_transition_smoothness * bpm_transition_score
                        + weights.genre_coherence * genre_coherence_score
                        + weights.popularity_balance * popularity_balance_score
                        + weights.duration_consistency * duration_consistency_score
                        + weights.era_cohesion * era_cohesion_score ),
                  100000 * n)

\* ToTitleCase::to_title_case: each word's first character uppercased, the
\* rest lowercased, the words joined by one space.
RECURSIVE SplitWords(_)
SplitWords(s) ==
    LET starts == {i \in 1..Len(s) : ~IsWhitespace(s[i])}
    IN  IF starts = {} THEN <<>>
        ELSE LET a == SetMin(starts)
                 stops == {j \in a..Len(s) : IsWhitespace(s[j])}
                 b == IF stops = {} THEN Len(s) + 1 ELSE SetMin(stops)
             IN  <<SubSeq(s, a, b - 1)>> \o SplitWords(SubSeq(s, b, Len(s)))

RECURSIVE JoinWords(_)
JoinWords(ws) ==
    IF ws = <<>> THEN <<>>
    ELSE IF Len(ws) = 1 THEN ws[1]
    ELSE ws[1] \o <<" ">> \o JoinWords(Tail(ws))

to_title_case(s) ==
    LET ws == SplitWords(s)
    IN  JoinWords([k \in 1..Len(ws) |->
            <<ToUpperChar(ws[k][1])>> \o ToLowercase(Tail(ws[k]))])

\* PlaylistGenerator::generate_playlist_name: the names it can return.
\* max_by_key over a HashMap returns one of the most frequent genres, which
\* one depending on the map's iteration order.
gen_generate_playlist_name(metadata) ==
    LET dist == metadata.genre_distribution
        genres == DOMAIN dist
    IN  IF genres = {} THEN {<<"M", "y", " ", "P", "l", "a", "y", "l", "i", "s", "t">>}
        ELSE {to_title_case(g) \o <<" ", "P", "l", "a", "y", "l", "i", "s", "t">> :
                 g \in {h \in genres : \A k \in genres : dist[h] >= dist[k]}}

-----------------------------------------------------------------------------
(* The tracks and profiles generate_playlist is run on *)

SongA1 ==
    [id |-> <<"1">>, title |-> <<"R", "o", "c", "k", " ", "S", "o", "n", "g">>, artist |-> <<"A", "r", "t", "i", "s", "t", " ", "A">>,
     album |-> <<"A", "l", "b", "u", "m", " ", "1">>, genre |-> Some(<<"R", "o", "c", "k">>), genres |-> Some(<<<<"R", "o", "c", "k">>>>),
     bpm |-> Some(120), duration |-> Some(200), year |-> Some(2020),
     play_count |-> Some(50), played |-> None, starred |-> Some(<<"s", "t", "a", "r", "r", "e", "d">>)]

SongA2 ==
    [id |-> <<"2">>, title |-> <<"A", "n", "o", "t", "h", "e", "r", " ", "R", "o", "c", "k", " ", "S", "o", "n", "g">>, artist |-> <<"A", "r", "t", "i", "s", "t", " ", "A">>,
     album |-> <<"A", "l", "b", "u", "m", " ", "2">>, genre |-> Some(<<"R", "o", "c", "k">>),
     genres |-> Some(<<<<"R", "o", "c", "k">>, <<"P", "o", "p", " ", "R", "o", "c", "k">>>>),
     bpm |-> Some(125), duration |-> Some(210), year |-> Some(2021),
     play_count |-> Some(50), played |-> None, starred |-> Some(<<"s", "t", "a", "r", "r", "e", "d">>)]

SongMetal ==
    [id |-> <<"m", "e", "t", "a", "l", "1">>, title |-> <<"M", "e", "t", "a", "l", " ", "S", "o", "n", "g">>, artist |-> <<"M", "e", "t", "a", "l", " ", "A", "r", "t", "i", "s", "t">>,
     album |-> <<"A", "l", "b", "u", "m">>, genre |-> Some(<<"M", "e", "t", "a", "l">>), genres |-> Some(<<<<"M", "e", "t", "a", "l">>>>),
     bpm |-> Some(140), duration |-> Some(200), year |-> Some(2020),
     play_count |-> Some(5), played |-> None, starred |-> None]

SongSlow ==
    [id |-> <<"5">>, title |-> <<"S", "l", "o", "w", " ", "S", "o", "n", "g">>, artist |-> <<"A", "r", "t", "i", "s", "t", " ", "D">>,
     album |-> <<"A", "l", "b", "u", "m", " ", "5">>, genre |-> None, genres |-> Some(<<<<"A", "m", "b", "i", "e", "n", "t", " ", "R", "o", "c", "k">>>>),
     bpm |-> Some(60), duration |-> Some(300), year |-> Some(1990),
     play_count |-> None,
     played |-> Some([rfc3339 |-> TRUE, halfdays |-> 2]), starred |-> None]

SongInterlude ==
    [id |-> <<"1", "7">>, title |-> <<"I", "n", "t", "e", "r", "l", "u", "d", "e">>, artist |-> <<"A", "r", "t", "i", "s", "t", " ", "A">>,
     album |-> <<"A", "l", "b", "u", "m", " ", "1">>, genre |-> Some(<<"R", "o", "c", "k">>), genres |-> None,
     bpm |-> None, duration |-> Some(45), year |-> None,
     play_count |-> Some(0),
     played |-> Some([rfc3339 |-> FALSE, halfdays |-> 0]), starred |-> None]

Catalogue == {SongA1, SongA2, SongMetal, SongSlow, SongInterlude}

\* The weights of the profiles: those of create_test_config, those of
\* test_transition_rules_impact, and a discovery-mode profile.
ProfileWeights ==
    {[quality_weights |->
          [artist_diversity |-> 50, bpm_transition_smoothness |-> 50,
           genre_coherence |-> 50, popularity_balance |-> 50,
           duration_consistency |-> 50, era_cohesion |-> 50],
      transition_rules |->
          [max_bpm_jump |-> 20, preferred_bpm_change |-> 0,
           avoid_artist_repeats_within |-> 2],
      preference_weights |->
          [starred_boost |-> 50, play_count_weight |-> 10,
           recency_penalty_weight |-> 5, randomness_factor |-> 1,
           discovery_mode |-> FALSE]],
     [quality_weights |->
          [artist_diversity |-> 50, bpm_transition_smoothness |-> 50,
           genre_coherence |-> 50, popularity_balance |-> 50,
           duration_consistency |-> 50, era_cohesion |-> 50],
      transition_rules |->
          [max_bpm_jump |-> 5, preferred_bpm_change |-> 0,
           avoid_artist_repeats_within |-> 10],
      preference_weights |->
          [starred_boost |-> 50, play_count_weight |-> 10,
           recency_penalty_weight |-> 5, randomness_factor |-> 1,
           discovery_mode |-> FALSE]],
     [quality_weights |->
          [artist_diversity |-> 100, bpm_transition_smoothness |-> 0,
           genre_coherence |-> 100, popularity_balance |-> 30,
           duration_consistency |-> 0, era_cohesion |-> 80],
      transition_rules |->
          [max_bpm_jump |-> 50, preferred_bpm_change |-> -5,
           avoid_artist_repeats_within |-> 3],
      preference_weights |->
          [starred_boost |-> 0, play_count_weight |-> 1,
           recency_penalty_weight |-> 0, randomness_factor |-> 0,
           discovery_mode |-> TRUE]]}

Configs ==
    {[name |-> <<"T", "e", "s", "t", " ", "P", "l", "a", "y", "l", "i", "s", "t">>,
      acceptable_genres |-> a, unacceptable_genres |-> u, bpm_thresholds |-> b,
      quality_weights |-> w.quality_weights,
      transition_rules |-> w.transition_rules,
      preference_weights |-> w.preference_weights] :
        a \in {None, Some(<<<<"R", "o", "c", "k">>>>)},
        u \in {None, Some(<<<<"M", "e", "t", "a", "l">>>>)},
        b \in {None, Some([min_bpm |-> 100, max_bpm |-> 150])},
        w \in ProfileWeights}

\* self.is_actual_song over the catalogue (evaluated once per track).
gen_is_actual_song == [song \in Catalogue |-> is_actual_song(song)]

\* The closure of generate_playlist's filter.
gen_filter(song, cfg) ==
    gen_is_actual_song[song] /\ matches_acceptable_genres(song, cfg)

DefaultTargetLength == 20

\* generate_playlist up to the truncation: the songs of the result.
generate_playlist_songs(pool, target, cfg) ==
    LET limit == IF IsSome(target) THEN Unwrap(target) ELSE DefaultTargetLength
        filtered_songs == SelectSeq(pool, LAMBDA song : gen_filter(song, cfg))
        score == [song \in Range(filtered_songs) |->
                     gen_calculate_preference_score(song, cfg)]
    IN  Truncate(SortByScoreDesc(filtered_songs, score), limit)

-----------------------------------------------------------------------------
(* Spec: one run of generate_playlist *)

SeqIdle ==
    /\ seq_songs = <<>>
    /\ remaining = <<>>
    /\ selected = <<>>
    /\ transition_rules = None
    /\ seq_target = 0
    /\ best_candidate_index = 0
    /\ seq_pc = "idle"

CallIdle == call = None

ClientIdle ==
    /\ client_call = None
    /\ client_pc = "idle"
    /\ server_playlists = <<>>
    /\ existing = None
    /\ fetch_all_songs = <<>>
    /\ seen_ids = {}
    /\ attempts = 0
    /\ batch_requests = 0
    /\ client_ret = None

Init ==
    /\ songs \in SeqsNoRepeat(Catalogue, MaxPool)
    /\ config \in Configs
    /\ target_length \in {None} \cup {Some(n) : n \in 0..MaxTarget}
    /\ playlist = None
    /\ SeqIdle
    /\ CallIdle
    /\ ClientIdle

GeneratePlaylist ==
    /\ playlist = None
    /\ LET filtered_songs == generate_playlist_songs(songs, target_length, config)
           metadata == gen_calculate_metadata(filtered_songs)
           quality_score ==
               gen_calculate_quality_score(filtered_songs, metadata, config)
       IN  \E name \in {config.name} \cup gen_generate_playlist_name(metadata) :
              \* playlist_name.unwrap_or_else(|| self.generate_playlist_name(..))
              playlist' = Some([name |-> name,
                                songs |-> filtered_songs,
                                quality_score |-> quality_score,
                                metadata |-> metadata])
    /\ UNCHANGED <<songs, config, target_length>>
    /\ UNCHANGED seqVars
    /\ UNCHANGED clientVars
    /\ UNCHANGED call

Next == GeneratePlaylist

Spec == Init /\ [][Next]_vars

-----------------------------------------------------------------------------
(* Properties of generate_playlist (Spec) *)

Returned == IsSome(playlist)

\* target_length.unwrap_or(20)
TargetLimit ==
    IF IsSome(target_length) THEN Unwrap(target_length) ELSE DefaultTargetLength

\* The tracks of the pool that pass generate_playlist's filter, in pool order.
Eligible == SelectSeq(songs, LAMBDA song : gen_filter(song, config))

ArtistsOf(list) == {list[i].artist : i \in 1..Len(list)}

\* C1: the returned playlist has at most target_length tracks and at most as
\* many tracks as the pool has tracks passing generate_playlist's filter.
C1_LengthBounded ==
    Returned =>
        /\ Len(Unwrap(playlist).songs) <= TargetLimit
        /\ Len(Unwrap(playlist).songs) <= Len(Eligible)

\* C1 witness: a run in which the target cuts the list (more eligible tracks
\* than the target) and one in which the pool is the limit both occur; this
\* is the first.
C1_Witness ==
    /\ Returned
    /\ Len(Eligible) > TargetLimit
    /\ TargetLimit >= 2
    /\ Len(Unwrap(playlist).songs) = TargetLimit

\* C2 (as stated): when the eligible pool holds more distinct artists than
\* avoid_artist_repeats_within, and at least as many as the playlist has
\* places, no two tracks at positions less than avoid_artist_repeats_within
\* apart have the same artist.
C2_NoArtistRepeatInWindow ==
    ( /\ Returned
      /\ Cardinality(ArtistsOf(Eligible)) > config.transition_rules.avoid_artist_repeats_within
      /\ Cardinality(ArtistsOf(Eligible)) >= Min(TargetLimit, Len(Eligible)) )
    => LET out == Unwrap(playlist).songs
       IN  \A i, j \in 1..Len(out) :
               ( i < j /\ j - i < config.transition_rules.avoid_artist_repeats_within )
               => out[i].artist # out[j].artist

\* C2 witness of the claim's case: the precondition holds and a playlist of
\* at least two tracks was returned under a window of at least 2.
C2_Witness ==
    /\ Returned
    /\ config.transition_rules.avoid_artist_repeats_within >= 2
    /\ Cardinality(ArtistsOf(Eligible)) > config.transition_rules.avoid_artist_repeats_within
    /\ Cardinality(ArtistsOf(Eligible)) >= Min(TargetLimit, Len(Eligible))
    /\ Len(Unwrap(playlist).songs) >= 2

\* C3 (as stated): every track of the returned playlist passes every check of
\* the track filter: actual song, allow-list, deny-list, tempo range.
C3_AllTracksPassFilter ==
    Returned =>
        \A i \in 1..Len(Unwrap(playlist).songs) :
            LET song == Unwrap(playlist).songs[i]
            IN  /\ gen_is_actual_song[song]
                /\ matches_acceptable_genres(song, config)
                /\ does_not_match_unacceptable_genres(song, config)
                /\ matches_bpm_thresholds(song, config)

\* C3 witness: a playlist returned under a profile with a deny-list and a
\* tempo range, from a pool holding a track that fails one of them.
C3_Witness ==
    /\ Returned
    /\ IsSome(config.unacceptable_genres)
    /\ IsSome(config.bpm_thresholds)
    /\ Unwrap(playlist).songs # <<>>
    /\ \E i \in 1..Len(songs) :
           /\ gen_is_actual_song[songs[i]]
           /\ ~ ( /\ does_not_match_unacceptable_genres(songs[i], config)
                  /\ matches_bpm_thresholds(songs[i], config) )

\* C5: generate_playlist returns exactly min(target_length, number of
\* eligible tracks) tracks, whatever the transition rules.
C5_ExactLength ==
    Returned =>
        Len(Unwrap(playlist).songs) = Min(TargetLimit, Len(Eligible))

\* C5 witness: the restrictive rules of test_transition_rules_impact (window
\* 10, max_bpm_jump 5), a pool whose eligible tracks include two by the same
\* artist with tempos exactly 5 apart, both returned at target 2.
C5_Witness ==
    /\ Returned
    /\ config.transition_rules.avoid_artist_repeats_within = 10
    /\ config.transition_rules.max_bpm_jump = 5
    /\ target_length = Some(2)
    /\ Unwrap(playlist).songs = <<SongA1, SongA2>>
    /\ Len(Eligible) = 2

\* C6: when no track of the pool passes the filter (the empty pool included)
\* the playlist has zero tracks, total_duration 0, artist_count 0 and quality
\* score exactly 0.
C6_EmptyPlaylist ==
    ( Returned /\ Eligible = <<>> )
    => /\ Unwrap(playlist).songs = <<>>
       /\ Unwrap(playlist).metadata.total_duration = 0
       /\ Unwrap(playlist).metadata.artist_count = 0
       /\ Unwrap(playlist).quality_score.num = 0
       /\ Unwrap(playlist).quality_score.den # 0

\* C6 witness: a non-empty pool none of whose tracks passes, with a positive
\* target.
C6_Witness ==
    /\ Returned
    /\ songs # <<>>
    /\ Eligible = <<>>
    /\ TargetLimit > 0

\* The preference score generate_playlist sorts by.
GenScore(song) == gen_calculate_preference_score(song, config)

\* The eligible tracks generate_playlist left out of the playlist.
LeftOut == Range(Eligible) \ Range(Unwrap(playlist).songs)

\* C25: generate_playlist returns eligible tracks in non-increasing order of
\* preference score, and every eligible track left out scores no higher than
\* every included track.
C25_TopByPreference ==
    Returned =>
        LET list == Unwrap(playlist).songs
        IN  /\ Range(list) \subseteq Range(Eligible)
            /\ \A i \in 1..(Len(list) - 1) :
                   GenScore(list[i]) >= GenScore(list[i + 1])
            /\ \A out \in LeftOut : \A i \in 1..Len(list) :
                   GenScore(out) <= GenScore(list[i])

\* C25 witness: the sort moved a track forward (the first returned track is
\* not the first eligible one and scores strictly higher than the last
\* returned one), and an eligible track of strictly lower score was left out.
C25_Witness ==
    /\ Returned
    /\ LET list == Unwrap(playlist).songs
       IN  /\ Len(list) >= 2
           /\ list[1] # Eligible[1]
           /\ GenScore(list[1]) > GenScore(list[Len(list)])
           /\ \E out \in LeftOut : GenScore(out) < GenScore(list[Len(list)])

-----------------------------------------------------------------------------
(* scoring.rs: PlaylistScoring.  Sub-scores are whole ten-thousandths       *)
(* (rounded down); a quality weight is in hundredths.                       *)

\* f32::log2 of a count, in thousandths (rounded), for the counts the model
\* reaches.
Log2Milli(n) ==
    CASE n = 1 -> 0
      [] n = 2 -> 1000
      [] n = 3 -> 1585
      [] n = 4 -> 2000
      [] n = 5 -> 2322
      [] n = 6 -> 2585
      [] n = 7 -> 2807
      [] n = 8 -> 3000
      [] n = 9 -> 3170
      [] n = 10 -> 3322
      [] n = 11 -> 3459
      [] n = 12 -> 3585

\* The integer square root: the largest r with r * r <= n, found by bisection
\* on lo..hi.
RECURSIVE ISqrtIn(_, _, _)
ISqrtIn(n, lo, hi) ==
    IF lo >= hi THEN lo
    ELSE LET mid == (lo + hi + 1) \div 2
         IN  IF mid * mid <= n THEN ISqrtIn(n, mid, hi)
             ELSE ISqrtIn(n, lo, mid - 1)

\* f32::sqrt, rounded down to a whole number (n < 2^30).
ISqrt(n) == ISqrtIn(n, 0, 32767)

Clamp(x, lo, hi) == IF x < lo THEN lo ELSE IF x > hi THEN hi ELSE x

\* PlaylistScoring::calculate_genre_coherence_score: 1 - entropy / log2(number
\* of genres), the probability of a genre being count / total_songs.
calculate_genre_coherence_score(genre_distribution, total_songs) ==
    LET genres == DOMAIN genre_distribution
        genre_count == Cardinality(genres)
    IN  IF genres = {} \/ total_songs = 0 THEN 5000
        ELSE IF genre_count = 1 THEN 10000
        ELSE LET \* entropy * total_songs, in thousandths:
                 \* -sum (count/total) * log2(count/total), times total
                 entropy_total ==
                     SumFn([g \in genres |->
                               genre_distribution[g]
                                   * (Log2Milli(total_songs)
                                      - Log2Milli(genre_distribution[g]))],
                           genres)
                 max_entropy == Log2Milli(genre_count)
             IN  \* max_entropy > 0.0 since genre_count >= 2
                 (10000 * (total_songs * max_entropy - entropy_total))
                     \div (total_songs * max_entropy)

\* calculate_era_cohesion_score without the .max(0.0) floor of its last
\* bracket: what C17 rules out.
EraCohesionNoFloor(era_span) ==
    IF IsSome(era_span[1]) /\ IsSome(era_span[2])
    THEN LET span == Unwrap(era_span[2]) - Unwrap(era_span[1])
         IN  IF span <= 2 THEN 10000
             ELSE IF span <= 10 THEN 8000 - 375 * (span - 2)
             ELSE IF span <= 20 THEN 5000 - 300 * (span - 10)
             ELSE 2000 - 40 * (span - 20)
    ELSE 5000

\* PlaylistScoring::calculate_era_cohesion_score
calculate_era_cohesion_score(era_span) ==
    IF IsSome(era_span[1]) /\ IsSome(era_span[2])
    THEN LET span == Unwrap(era_span[2]) - Unwrap(era_span[1])
         IN  IF span <= 2 THEN 10000
             ELSE IF span <= 10 THEN 8000 - 375 * (span - 2)
             ELSE IF span <= 20 THEN 5000 - 300 * (span - 10)
             ELSE Max(2000 - 40 * (span - 20), 0)
    ELSE 5000

\* PlaylistScoring::calculate_popularity_balance_score.  The coefficient of
\* variation std_dev / mean is sqrt(n * sum pc^2 - (sum pc)^2) / sum pc, kept
\* in hundredths.
calculate_popularity_balance_score(list) ==
    LET idx == {i \in 1..Len(list) : IsSome(list[i].play_count)}
        play_counts == [i \in 1..Len(list) |->
            IF i \in idx THEN Unwrap(list[i].play_count) ELSE 0]
        n == Cardinality(idx)
        total == SumSeq(play_counts)
        squares == SumSeq([i \in 1..Len(list) |-> play_counts[i] * play_counts[i]])
        coefficient_of_variation ==
            IF total > 0 THEN ISqrt(10000 * (n * squares - total * total)) \div total
            ELSE 0
    IN  IF n = 0 THEN 5000
        ELSE IF n = 1 THEN 5000
        ELSE IF coefficient_of_variation <= 30
             THEN (coefficient_of_variation * 5000) \div 30
        ELSE IF coefficient_of_variation <= 100
             THEN 5000 + ((coefficient_of_variation - 30) * 5000) \div 70
        ELSE Clamp(20000 - 100 * coefficient_of_variation, 0, 10000)

\* PlaylistScoring::calculate_artist_diversity_score
calculate_artist_diversity_score(list) ==
    IF Len(list) <= 1 THEN 10000
    ELSE (10000 * Cardinality({list[i].artist : i \in 1..Len(list)})) \div Len(list)

\* PlaylistScoring::calculate_bpm_transition_smoothness_score
calculate_bpm_transition_smoothness_score(list) ==
    IF Len(list) <= 1 THEN 10000
    ELSE LET pairs == {i \in 1..(Len(list) - 1) :
                          IsSome(list[i].bpm) /\ IsSome(list[i + 1].bpm)}
             jumps == [i \in 1..(Len(list) - 1) |->
                 IF i \in pairs
                 THEN Abs(Unwrap(list[i].bpm) - Unwrap(list[i + 1].bpm)) ELSE 0]
             count == Cardinality(pairs)
         IN  IF pairs = {} THEN 5000
             ELSE Clamp((10000 * (60 * count - SumSeq(jumps))) \div (60 * count),
                        0, 10000)

\* PlaylistScoring::calculate_quality_score, as an exact fraction of the
\* rounded sub-scores: the weighted sum over the sum of the weights.
calculate_quality_score(list, metadata, cfg) ==
    IF list = <<>> THEN Frac(0, 1)
    ELSE LET weights == cfg.quality_weights
             genre_coherence_score ==
                 calculate_genre_coherence_score(metadata.genre_distribution, Len(list))
                     * weights.genre_coherence
             era_cohesion_score ==
                 calculate_era_cohesion_score(metadata.era_span) * weights.era_cohesion
             popularity_balance_score ==
                 calculate_popularity_balance_score(list) * weights.popularity_balance
             artist_diversity_score ==
                 calculate_artist_diversity_score(list) * weights.artist_diversity
             bpm_smoothness_score ==
                 calculate_bpm_transition_smoothness_score(list)
                     * weights.bpm_transition_smoothness
             total_score == genre_coherence_score + popularity_balance_score
                            + era_cohesion_score + artist_diversity_score
                            + bpm_smoothness_score
             total_weight == weights.genre_coherence + weights.popularity_balance
                             + weights.era_cohesion + weights.artist_diversity
                             + weights.bpm_transition_smoothness
         IN  IF total_weight > 0 THEN Frac(total_score, 10000 * total_weight)
             ELSE Frac(1, 2)

\* generator_backup.rs (not part of the build): the smoothness curve of one
\* tempo difference, in units of 1/2100, and
\* PlaylistGenerator::calculate_bpm_transition_score over the known tempos
\* of a track list, as a fraction.
SmoothnessCurve(diff) ==
    IF diff <= 5 THEN 2100
    ELSE IF diff <= 15 THEN 2100 - 63 * (diff - 5)
    ELSE IF diff <= 30 THEN 1470 - 56 * (diff - 15)
    ELSE Max(630 - 9 * (diff - 30), 0)

RECURSIVE KnownTempos(_)
KnownTempos(list) ==
    IF list = <<>> THEN <<>>
    ELSE (IF IsSome(Head(list).bpm) THEN <<Unwrap(Head(list).bpm)>> ELSE <<>>)
         \o KnownTempos(Tail(list))

backup_calculate_bpm_transition_score(list) ==
    LET bpms == KnownTempos(list)
    IN  IF Len(bpms) < 2 THEN Frac(1, 2)
        ELSE LET smoothness == [i \in 1..(Len(bpms) - 1) |->
                     SmoothnessCurve(Abs(bpms[i + 1] - bpms[i]))]
                 transition_count == Len(bpms) - 1
             IN  Frac(SumSeq(smoothness), 2100 * transition_count)

-----------------------------------------------------------------------------
(* transitions.rs: PlaylistTransitions.  Scores are exact fractions; the    *)
(* genre_coherence weight is in hundredths.                                 *)

\* calculate_bpm_transition_score whose wrong-direction penalty lacks the
\* .min(0.3) cap: what C11 rules out.
WrongDirectionUncapped(cfg, song_a, song_b) ==
    IF IsSome(song_a.bpm) /\ IsSome(song_b.bpm)
    THEN LET actual_change == Unwrap(song_b.bpm) - Unwrap(song_a.bpm)
             ideal_change == cfg.transition_rules.preferred_bpm_change
             max_jump == cfg.transition_rules.max_bpm_jump
         IN  IF actual_change = ideal_change THEN Frac(1, 1)
             ELSE IF \/ (ideal_change > 0 /\ actual_change > 0)
                     \/ (ideal_change < 0 /\ actual_change < 0)
             THEN Frac(9 * max_jump - 4 * Abs(actual_change - ideal_change),
                       10 * max_jump)
             ELSE IF \/ (ideal_change > 0 /\ actual_change < 0)
                     \/ (ideal_change < 0 /\ actual_change > 0)
             THEN Frac(4 * max_jump - 3 * Abs(actual_change), 10 * max_jump)
             ELSE Frac(4, 10)
    ELSE Frac(1, 2)

\* PlaylistTransitions::calculate_bpm_transition_score
calculate_bpm_transition_score(cfg, song_a, song_b) ==
    IF IsSome(song_a.bpm) /\ IsSome(song_b.bpm)
    THEN LET actual_change == Unwrap(song_b.bpm) - Unwrap(song_a.bpm)
             ideal_change == cfg.transition_rules.preferred_bpm_change
             max_jump == cfg.transition_rules.max_bpm_jump
         IN  IF actual_change = ideal_change THEN Frac(1, 1)
             ELSE IF \/ (ideal_change > 0 /\ actual_change > 0)
                     \/ (ideal_change < 0 /\ actual_change < 0)
             THEN \* closeness = 1 - |actual - ideal| / max_jump;
                  \* 0.5 + (closeness * 0.4).min(0.4), closeness < 1 here.
                  \* With max_jump = 0 closeness is -inf and so is the score.
                  Frac(9 * max_jump - 4 * Abs(actual_change - ideal_change),
                       10 * max_jump)
             ELSE IF \/ (ideal_change > 0 /\ actual_change < 0)
                     \/ (ideal_change < 0 /\ actual_change > 0)
             THEN \* 0.4 - (0.3 * (|actual| / max_jump)).min(0.3); with
                  \* max_jump = 0 the quotient is +inf and the minimum 0.3
                  IF max_jump = 0 THEN Frac(1, 10)
                  ELSE Frac(4 * max_jump - Min(3 * Abs(actual_change), 3 * max_jump),
                            10 * max_jump)
             ELSE Frac(4, 10)
    ELSE Frac(1, 2)

\* calculate_genre_compatibility_score without its two "no genre info"
\* returns: an untagged candidate or playlist is scored as a genre mismatch.
GenreCompatibilityNoNeutral(cfg, current_playlist, candidate) ==
    IF current_playlist = <<>> THEN Frac(1, 2)
    ELSE LET n == Len(current_playlist)
             playlist_keys ==
                 UNION {get_all_genres(current_playlist[i]) : i \in 1..n}
             frequency == [g \in playlist_keys |->
                 Cardinality({i \in 1..n : g \in get_all_genres(current_playlist[i])})]
             coherence_pref == cfg.quality_weights.genre_coherence
             matching == get_all_genres(candidate) \cap playlist_keys
         IN  IF matching # {}
             THEN LET best == SetMax({Min(frequency[g], n) : g \in matching})
                  IN  Frac(100 * n + best * coherence_pref, 200 * n)
             ELSE Frac(900 - 8 * coherence_pref, 1000)

\* PlaylistTransitions::calculate_genre_compatibility_score
calculate_genre_compatibility_score(cfg, current_playlist, candidate) ==
    IF current_playlist = <<>> THEN Frac(1, 2)
    ELSE LET candidate_genres == get_all_genres(candidate)
             n == Len(current_playlist)
             genresOf == [i \in 1..n |-> get_all_genres(current_playlist[i])]
             \* playlist_genres: genre -> number of tracks carrying it
             playlist_keys == UNION {{ToLowercase(g) : g \in genresOf[i]} : i \in 1..n}
             frequency == [g \in playlist_keys |->
                 Cardinality({i \in 1..n : g \in {ToLowercase(h) : h \in genresOf[i]}})]
             coherence_pref == cfg.quality_weights.genre_coherence
             matching == {ToLowercase(g) : g \in candidate_genres} \cap playlist_keys
         IN  IF candidate_genres = {} THEN Frac(1, 2)
             ELSE IF playlist_keys = {} THEN Frac(1, 2)
             ELSE IF matching # {}
             THEN \* best_frequency = max (frequency / len).min(1.0)
                  LET best == SetMax({Min(frequency[g], n) : g \in matching})
                  IN  Frac(100 * n + best * coherence_pref, 200 * n)
             ELSE Frac(900 - 8 * coherence_pref, 1000)

\* PlaylistTransitions::calculate_transition_score
calculate_transition_score(cfg, current_playlist, candidate) ==
    IF current_playlist = <<>> THEN Frac(1, 2)
    ELSE LET last_song == current_playlist[Len(current_playlist)]
             bpm_score == calculate_bpm_transition_score(cfg, last_song, candidate)
             genre_score ==
                 calculate_genre_compatibility_score(cfg, current_playlist, candidate)
         IN  FracHalf(FracAdd(bpm_score, genre_score))

\* would_violate_artist_repetition that slices the last avoid_within tracks
\* without the .min(len), and would_violate_album_repetition that looks at
\* the whole playlist: what C13 and C14 rule out.
ArtistRepetitionNoMin(avoid_within, current_playlist, candidate) ==
    LET len == Len(current_playlist)
    IN  IF len - avoid_within < 0 THEN None
        ELSE Some(\E i \in (len - avoid_within + 1)..len :
                      current_playlist[i].artist = candidate.artist)

AlbumRepetitionAnywhere(avoid_within, current_playlist, candidate) ==
    Some(/\ avoid_within > 0
         /\ \E i \in 1..Len(current_playlist) :
                current_playlist[i].album = candidate.album)

\* PlaylistTransitions::would_violate_artist_repetition.  The slice
\* &current_playlist[len - check_count..] panics when its start underflows;
\* the result is Some(flag), or None when the slice panics.
would_violate_artist_repetition(avoid_within, current_playlist, candidate) ==
    LET len == Len(current_playlist)
        check_count == Min(avoid_within, len)
    IN  IF len - check_count < 0 THEN None
        ELSE LET recent_songs == SubSeq(current_playlist, len - check_count + 1, len)
             IN  Some(\E i \in 1..Len(recent_songs) :
                          recent_songs[i].artist = candidate.artist)

\* PlaylistTransitions::would_violate_album_repetition
would_violate_album_repetition(avoid_within, current_playlist, candidate) ==
    LET len == Len(current_playlist)
        check_count == Min(avoid_within, len)
    IN  IF len - check_count < 0 THEN None
        ELSE LET recent_songs == SubSeq(current_playlist, len - check_count + 1, len)
             IN  Some(\E i \in 1..Len(recent_songs) :
                          recent_songs[i].album = candidate.album)

\* parse_days_since_played that gives up on a timestamp it cannot parse
\* (Err, here None) instead of assuming half a day: what C15 rules out.
ParseRejectsUnparsable(played_str) ==
    IF played_str.rfc3339 THEN Some(Max(played_str.halfdays, 0)) ELSE None

\* PlaylistScoring::parse_days_since_played (scoring.rs), in half days:
\* Some(n) for Ok(n / 2), None for Err.  Every path of the code ends in Ok:
\* the parsed age floored at 0, or Ok(0.5) when no format applies (as in
\* generator.rs, only parse_from_rfc3339 can succeed).
scoring_parse_days_since_played(played_str) ==
    IF played_str.rfc3339 THEN Some(Max(played_str.halfdays, 0)) ELSE Some(1)

\* PlaylistTransitions::would_violate_min_days_since_last_play
would_violate_min_days_since_last_play(min_days, candidate) ==
    IF IsSome(candidate.played)
    THEN LET parsed == scoring_parse_days_since_played(Unwrap(candidate.played))
         IN  IF IsSome(parsed) THEN Unwrap(parsed) < 2 * min_days ELSE FALSE
    ELSE FALSE

\* scoring.rs calculate_preference_score that scores the play count as in
\* normal mode whatever discovery_mode says: what C19 rules out.
PreferenceIgnoresDiscovery(song, cfg) ==
    LET weights == cfg.preference_weights
        starred == IF IsSome(song.starred) THEN 1400 * weights.starred_boost ELSE 0
        plays == IF IsSome(song.play_count)
                 THEN 1400 * Unwrap(song.play_count) * weights.play_count_weight
                 ELSE 0
        randomness_multiplier == IF weights.discovery_mode THEN 20 ELSE 10
        randomness ==
            (Len(song.id) % randomness_multiplier) * weights.randomness_factor * 140
    IN  starred + plays + randomness

\* PlaylistScoring::calculate_preference_score (scoring.rs), in units of
\* 1/1400 (randomness_factor is in tenths, the age of the last play in half
\* days, so the penalty factor 1 - days / 7 is (14 - halfdays) / 14).
calculate_preference_score(song, cfg) ==
    LET weights == cfg.preference_weights
        starred == IF IsSome(song.starred) THEN 1400 * weights.starred_boost ELSE 0
        plays ==
            IF IsSome(song.play_count)
            THEN LET play_count == Unwrap(song.play_count)
                 IN  IF weights.discovery_mode
                     THEN 1400 * (50 - Min(play_count, 50)) * weights.play_count_weight
                     ELSE 1400 * play_count * weights.play_count_weight
            ELSE IF weights.discovery_mode
            THEN 1400 * 50 * weights.play_count_weight
            ELSE 0
        recency ==
            IF IsSome(song.played)
            THEN LET parsed == scoring_parse_days_since_played(Unwrap(song.played))
                 IN  IF IsSome(parsed) /\ Unwrap(parsed) < 28
                     THEN weights.recency_penalty_weight * (14 - Unwrap(parsed)) * 100
                     ELSE 0
            ELSE 0
        randomness_multiplier == IF weights.discovery_mode THEN 20 ELSE 10
        randomness ==
            (Len(song.id) % randomness_multiplier) * weights.randomness_factor * 140
    IN  starred + plays - recency + randomness

\* utils.rs: PlaylistNaming, and the calculate_metadata of scoring.rs that
\* feeds it: the metadata of generator.rs with the number of tracks added.
calculate_metadata(list) ==
    LET metadata == gen_calculate_metadata(list)
    IN  [field \in DOMAIN metadata \cup {"total_songs"} |->
            IF field = "total_songs" THEN Len(list) ELSE metadata[field]]

backup_playlist_name_suffixes ==
    <<<<"t", "u", "n", "e", "s">>, <<"v", "i", "b", "e", "s">>, <<"j", "a", "m", "s">>, <<"m", "e", "l", "o", "d", "i", "e", "s">>, <<"g", "r", "o", "o", "v", "e", "s">>, <<"b", "e", "a", "t", "s">>,
      <<"r", "h", "y", "t", "h", "m", "s">>, <<"s", "o", "u", "n", "d", "s">>, <<"t", "r", "a", "c", "k", "s">>>>

\* PlaylistNaming::generate_playlist_name: the names it can return on a day
\* of the week (Local::now().format("%A")).  max_by_key over a HashMap
\* returns one of the most frequent genres, and choose(&mut rng) any suffix.
generate_playlist_name(name, metadata, day_of_week) ==
    LET dist == metadata.genre_distribution
        genres == DOMAIN dist
        most_frequent == {g \in genres : \A k \in genres : dist[g] >= dist[k]}
    IN  IF genres # {}
        THEN UNION {
                 IF metadata.total_songs > 0 /\ 10 * dist[genre] >= 4 * metadata.total_songs
                 THEN {ToLowercase(name \o <<" ">> \o day_of_week \o <<" ">>
                                   \o to_title_case(genre))}
                 ELSE {ToLowercase(name \o <<" ">> \o day_of_week \o <<" ">>
                                   \o backup_playlist_name_suffixes[k]) :
                          k \in 1..Len(backup_playlist_name_suffixes)}
                 : genre \in most_frequent}
        ELSE {name}

-----------------------------------------------------------------------------
(* FnSpec: one call of a helper of filters.rs, scoring.rs, transitions.rs,  *)
(* utils.rs (PlaylistNaming) or generator.rs                                *)

\* A track without genre tags, year or tempo, and one tagged both "Pop" and
\* "Metal" (create_mock_song of config_tests.rs with other arguments).
SongUntagged ==
    [id |-> <<"u", "1">>, title |-> <<"P", "l", "a", "i", "n", " ", "S", "o", "n", "g">>, artist |-> <<"A", "r", "t", "i", "s", "t", " ", "U">>,
     album |-> <<"A", "l", "b", "u", "m", " ", "U">>, genre |-> None, genres |-> None,
     bpm |-> None, duration |-> Some(180), year |-> None,
     play_count |-> Some(1), played |-> None, starred |-> None]

SongPopMetal ==
    [id |-> <<"p", "m", "1">>, title |-> <<"P", "o", "p", " ", "M", "e", "t", "a", "l", " ", "S", "o", "n", "g">>, artist |-> <<"M", "e", "t", "a", "l", " ", "A", "r", "t", "i", "s", "t">>,
     album |-> <<"A", "l", "b", "u", "m">>, genre |-> Some(<<"P", "o", "p">>), genres |-> Some(<<<<"P", "o", "p">>, <<"H", "e", "a", "v", "y", " ", "M", "E", "T", "A", "L">>>>),
     bpm |-> Some(110), duration |-> Some(200), year |-> Some(2005),
     play_count |-> Some(10), played |-> None, starred |-> None]

ScoringSongs == Catalogue \cup {SongUntagged}

FilterSongs == Catalogue \cup {SongUntagged, SongPopMetal}

\* Track lists of up to MaxTracks distinct tracks.
TrackLists == SeqsNoRepeat(ScoringSongs, MaxTracks)

\* create_test_config of config_tests.rs with an artist window of 2 and the
\* duration_consistency weight generator.rs reads.
BaseConfig ==
    [name |-> <<"T", "e", "s", "t", " ", "P", "l", "a", "y", "l", "i", "s", "t">>,
     acceptable_genres |-> None, unacceptable_genres |-> None,
     bpm_thresholds |-> None,
     quality_weights |->
         [artist_diversity |-> 50, bpm_transition_smoothness |-> 50,
          genre_coherence |-> 50, popularity_balance |-> 50,
          duration_consistency |-> 50, era_cohesion |-> 50],
     transition_rules |->
         [max_bpm_jump |-> 20, preferred_bpm_change |-> 0,
          avoid_artist_repeats_within |-> 2],
     preference_weights |->
         [starred_boost |-> 50, play_count_weight |-> 10,
          recency_penalty_weight |-> 5, randomness_factor |-> 1,
          discovery_mode |-> FALSE]]

FilterConfigs ==
    {[BaseConfig EXCEPT !.acceptable_genres = a, !.unacceptable_genres = u,
                        !.bpm_thresholds = b] :
        a \in {None, Some(<<<<"R", "o", "c", "k">>, <<"P", "o", "p">>, <<"M", "e", "t", "a", "l">>>>), Some(<<<<"a", "m", "b", "i", "e", "n", "t">>>>)},
        u \in {None, Some(<<<<"M", "e", "t", "a", "l">>>>), Some(<<<<"R", "O", "C", "K">>, <<"j", "a", "z", "z">>>>), Some(<<>>)},
        b \in {None, Some([min_bpm |-> 100, max_bpm |-> 150])}}

\* Quality weights in hundredths: the test profile, none, genre coherence
\* alone, all 3.0, and a mixed choice.
QualityWeightsSet ==
    {[artist_diversity |-> d, bpm_transition_smoothness |-> b,
      genre_coherence |-> g, popularity_balance |-> p,
      duration_consistency |-> c, era_cohesion |-> e] :
        <<d, b, g, p, c, e>> \in {<<50, 50, 50, 50, 50, 50>>,
                                  <<0, 0, 0, 0, 0, 0>>,
                                  <<0, 0, 100, 0, 0, 0>>,
                                  <<300, 300, 300, 300, 300, 300>>,
                                  <<100, 0, 20, 70, 0, 5>>}}

QualityConfigs == {[BaseConfig EXCEPT !.quality_weights = w] : w \in QualityWeightsSet}

\* max_bpm_jump, preferred_bpm_change and the genre_coherence weight.
TransitionConfigs ==
    {[BaseConfig EXCEPT !.transition_rules.max_bpm_jump = r[1],
                        !.transition_rules.preferred_bpm_change = r[2],
                        !.quality_weights.genre_coherence = g] :
        r \in {<<20, 0>>, <<20, 5>>, <<5, 5>>, <<50, -5>>, <<0, 5>>},
        g \in {0, 50, 100, 150}}

GenIdle ==
    /\ songs = <<>>
    /\ config = BaseConfig
    /\ target_length = None
    /\ playlist = None

FnInit ==
    /\ GenIdle
    /\ SeqIdle
    /\ call = None
    /\ ClientIdle

\* SongFilters::should_include_song(song, config)
CallShouldIncludeSong ==
    /\ call = None
    /\ \E song \in FilterSongs, cfg \in FilterConfigs :
           call' = Some([fn |-> "should_include_song", song |-> song,
                         config |-> cfg, ret |-> should_include_song(song, cfg)])
    /\ UNCHANGED genVars
    /\ UNCHANGED seqVars
    /\ UNCHANGED clientVars

\* PlaylistScoring::calculate_quality_score(songs, &calculate_metadata(songs), config)
CallCalculateQualityScore ==
    /\ call = None
    /\ \E list \in TrackLists, cfg \in QualityConfigs :
           call' = Some([fn |-> "calculate_quality_score", songs |-> list,
                         config |-> cfg,
                         ret |-> calculate_quality_score(
                                     list, gen_calculate_metadata(list), cfg)])
    /\ UNCHANGED genVars
    /\ UNCHANGED seqVars
    /\ UNCHANGED clientVars

\* PlaylistGenerator::calculate_quality_score(songs, &calculate_metadata(songs))
CallGenCalculateQualityScore ==
    /\ call = None
    /\ \E list \in TrackLists, cfg \in QualityConfigs :
           call' = Some([fn |-> "gen_calculate_quality_score", songs |-> list,
                         config |-> cfg,
                         ret |-> gen_calculate_quality_score(
                                     list, gen_calculate_metadata(list), cfg)])
    /\ UNCHANGED genVars
    /\ UNCHANGED seqVars
    /\ UNCHANGED clientVars

\* PlaylistTransitions::calculate_bpm_transition_score(config, song_a, song_b)
CallCalculateBpmTransitionScore ==
    /\ call = None
    /\ \E song_a \in ScoringSongs, song_b \in ScoringSongs, cfg \in TransitionConfigs :
           call' = Some([fn |-> "calculate_bpm_transition_score",
                         song_a |-> song_a, song_b |-> song_b, config |-> cfg,
                         ret |-> calculate_bpm_transition_score(cfg, song_a, song_b)])
    /\ UNCHANGED genVars
    /\ UNCHANGED seqVars
    /\ UNCHANGED clientVars

\* PlaylistTransitions::calculate_transition_score(config, current_playlist, candidate)
CallCalculateTransitionScore ==
    /\ call = None
    /\ \E current_playlist \in TrackLists, candidate \in ScoringSongs,
          cfg \in TransitionConfigs :
           call' = Some([fn |-> "calculate_transition_score",
                         current_playlist |-> current_playlist,
                         candidate |-> candidate, config |-> cfg,
                         ret |-> calculate_transition_score(
                                     cfg, current_playlist, candidate)])
    /\ UNCHANGED genVars
    /\ UNCHANGED seqVars
    /\ UNCHANGED clientVars

\* The genre_coherence weight alone (the only setting
\* calculate_genre_compatibility_score reads).
GenreCoherenceConfigs ==
    {[BaseConfig EXCEPT !.quality_weights.genre_coherence = g] :
        g \in {0, 50, 100, 150}}

\* PlaylistTransitions::calculate_genre_compatibility_score(config,
\* current_playlist, candidate)
CallCalculateGenreCompatibilityScore ==
    /\ call = None
    /\ \E current_playlist \in TrackLists, candidate \in ScoringSongs,
          cfg \in GenreCoherenceConfigs :
           call' = Some([fn |-> "calculate_genre_compatibility_score",
                         current_playlist |-> current_playlist,
                         candidate |-> candidate, config |-> cfg,
                         ret |-> calculate_genre_compatibility_score(
                                     cfg, current_playlist, candidate)])
    /\ UNCHANGED genVars
    /\ UNCHANGED seqVars
    /\ UNCHANGED clientVars

\* A track whose artist and album differ from SongA1's in letter case only.
SongUpperArtist ==
    [SongA1 EXCEPT !.id = <<"9">>, !.artist = <<"A", "R", "T", "I", "S", "T", " ", "A">>, !.album = <<"A", "L", "B", "U", "M", " ", "1">>]

RepetitionSongs == ScoringSongs \cup {SongUpperArtist}

\* Playlists so far of up to MaxTracks distinct tracks, and windows of up to
\* MaxWindow tracks (longer than any of the playlists).
PlacedLists == SeqsNoRepeat(RepetitionSongs, MaxTracks)

MaxWindow == 4

\* PlaylistTransitions::would_violate_artist_repetition(avoid_within,
\* current_playlist, candidate)
CallWouldViolateArtistRepetition ==
    /\ call = None
    /\ \E avoid_within \in 0..MaxWindow, current_playlist \in PlacedLists,
          candidate \in RepetitionSongs :
           call' = Some([fn |-> "would_violate_artist_repetition",
                         avoid_within |-> avoid_within,
                         current_playlist |-> current_playlist,
                         candidate |-> candidate,
                         ret |-> would_violate_artist_repetition(
                                     avoid_within, current_playlist, candidate)])
    /\ UNCHANGED genVars
    /\ UNCHANGED seqVars
    /\ UNCHANGED clientVars

\* PlaylistTransitions::would_violate_album_repetition(avoid_within,
\* current_playlist, candidate)
CallWouldViolateAlbumRepetition ==
    /\ call = None
    /\ \E avoid_within \in 0..MaxWindow, current_playlist \in PlacedLists,
          candidate \in RepetitionSongs :
           call' = Some([fn |-> "would_violate_album_repetition",
                         avoid_within |-> avoid_within,
                         current_playlist |-> current_playlist,
                         candidate |-> candidate,
                         ret |-> would_violate_album_repetition(
                                     avoid_within, current_playlist, candidate)])
    /\ UNCHANGED genVars
    /\ UNCHANGED seqVars
    /\ UNCHANGED clientVars

\* Last-played timestamps: none, one no format applies to, and RFC 3339
\* ones from a day ahead to ten days back (in half days).
PlayedValues ==
    {None, Some([rfc3339 |-> FALSE, halfdays |-> 0])}
    \cup {Some([rfc3339 |-> TRUE, halfdays |-> h]) : h \in {-2, 0, 1, 2, 3, 5, 20}}

RecencySongs == {[SongA1 EXCEPT !.played = p] : p \in PlayedValues}

MaxMinDays == 3

\* PlaylistTransitions::would_violate_min_days_since_last_play(min_days,
\* candidate)
CallWouldViolateMinDaysSinceLastPlay ==
    /\ call = None
    /\ \E min_days \in 0..MaxMinDays, candidate \in RecencySongs :
           call' = Some([fn |-> "would_violate_min_days_since_last_play",
                         min_days |-> min_days, candidate |-> candidate,
                         ret |-> would_violate_min_days_since_last_play(
                                     min_days, candidate)])
    /\ UNCHANGED genVars
    /\ UNCHANGED seqVars
    /\ UNCHANGED clientVars

\* The play-count filters: none configured, and one or more of each variant.
PlayCountFilters ==
    {None, Some([kind |-> "None"])}
    \cup {Some([kind |-> "Exact", count |-> c]) : c \in {None, Some(0), Some(5)}}
    \cup {Some([kind |-> "Range", min |-> lo, max |-> hi]) :
             lo \in {None, Some(1)}, hi \in {None, Some(5)}}
    \cup {Some([kind |-> "Threshold", operator |-> op, count |-> 5]) :
             op \in {"above", "below", "at_least", "at_most", "equal"}}
    \cup {Some([kind |-> "Percentile", direction |-> d, percent |-> p]) :
             d \in {"top", "bottom", "middle"}, p \in {0, 25, 50, 100, 150}}

\* BaseConfig with a play_count_filter among its preference weights.
PlayCountConfigs ==
    {[BaseConfig EXCEPT !.preference_weights =
          [starred_boost |-> @.starred_boost,
           play_count_weight |-> @.play_count_weight,
           recency_penalty_weight |-> @.recency_penalty_weight,
           randomness_factor |-> @.randomness_factor,
           discovery_mode |-> @.discovery_mode,
           play_count_filter |-> f]] : f \in PlayCountFilters}

\* The pools the percentile thresholds are taken from.
PlayCountPools ==
    {<<>>, <<SongA1, SongMetal, SongSlow, SongInterlude>>,
     <<SongUntagged, SongMetal, SongA1, SongA2, SongSlow>>}

\* SongFilters::matches_play_count_filter(song, config, all_songs)
CallMatchesPlayCountFilter ==
    /\ call = None
    /\ \E song \in ScoringSongs, cfg \in PlayCountConfigs,
          all_songs \in PlayCountPools :
           call' = Some([fn |-> "matches_play_count_filter", song |-> song,
                         config |-> cfg, all_songs |-> all_songs,
                         ret |-> matches_play_count_filter(song, cfg, all_songs)])
    /\ UNCHANGED genVars
    /\ UNCHANGED seqVars
    /\ UNCHANGED clientVars

\* Era spans (min_year, max_year) as calculate_metadata produces them: no
\* known year, or min_year <= max_year up to MaxSpan years apart.
MaxSpan == 75

EraSpans ==
    {<<None, None>>}
    \cup {<<Some(min_year), Some(min_year + span)>> :
             min_year \in {1950, 2000}, span \in 0..MaxSpan}

\* PlaylistScoring::calculate_era_cohesion_score(era_span)
CallCalculateEraCohesionScore ==
    /\ call = None
    /\ \E era_span \in EraSpans :
           call' = Some([fn |-> "calculate_era_cohesion_score",
                         era_span |-> era_span,
                         ret |-> calculate_era_cohesion_score(era_span)])
    /\ UNCHANGED genVars
    /\ UNCHANGED seqVars
    /\ UNCHANGED clientVars

\* PlaylistScoring::calculate_bpm_transition_smoothness_score(songs)
CallCalculateBpmTransitionSmoothnessScore ==
    /\ call = None
    /\ \E list \in TrackLists :
           call' = Some([fn |-> "calculate_bpm_transition_smoothness_score",
                         songs |-> list,
                         ret |-> calculate_bpm_transition_smoothness_score(list)])
    /\ UNCHANGED genVars
    /\ UNCHANGED seqVars
    /\ UNCHANGED clientVars

\* generator_backup.rs PlaylistGenerator::calculate_bpm_transition_score(songs)
CallBackupCalculateBpmTransitionScore ==
    /\ call = None
    /\ \E list \in TrackLists :
           call' = Some([fn |-> "backup_calculate_bpm_transition_score",
                         songs |-> list,
                         ret |-> backup_calculate_bpm_transition_score(list)])
    /\ UNCHANGED genVars
    /\ UNCHANGED seqVars
    /\ UNCHANGED clientVars

\* create_test_song of playlist_tests.rs with a play count, a last-played
\* timestamp and a star.
PlayCounts == {None, Some(0), Some(1), Some(2), Some(3), Some(10), Some(50), Some(100)}

PreferenceSongs ==
    {[SongUntagged EXCEPT !.play_count = pc, !.played = p, !.starred = s] :
        pc \in PlayCounts,
        p \in {None, Some([rfc3339 |-> TRUE, halfdays |-> 3])},
        s \in {None, Some(<<"2", "0", "2", "4", "-", "0", "1", "-", "0", "1", "T", "0", "0", ":", "0", "0", ":", "0", "0", "Z">>)}}

\* The preference weights of test_discovery_mode_scoring (play count alone,
\* weight 1.0) in both modes, and others: play_count_weight 0, 1 or 10.
PreferenceConfigs ==
    {[BaseConfig EXCEPT !.preference_weights =
          [starred_boost |-> w[1], play_count_weight |-> w[2],
           recency_penalty_weight |-> w[3], randomness_factor |-> w[4],
           discovery_mode |-> d]] :
        w \in {<<0, 1, 0, 0>>, <<50, 10, 5, 1>>, <<1, 0, 1, 1>>},
        d \in BOOLEAN}

\* PlaylistScoring::calculate_preference_score(song, config)
CallCalculatePreferenceScore ==
    /\ call = None
    /\ \E song \in PreferenceSongs, cfg \in PreferenceConfigs :
           call' = Some([fn |-> "calculate_preference_score", song |-> song,
                         config |-> cfg,
                         ret |-> calculate_preference_score(song, cfg)])
    /\ UNCHANGED genVars
    /\ UNCHANGED seqVars
    /\ UNCHANGED clientVars

\* PlaylistGenerator::calculate_preference_score(song) of generator.rs
CallGenCalculatePreferenceScore ==
    /\ call = None
    /\ \E song \in PreferenceSongs, cfg \in PreferenceConfigs :
           call' = Some([fn |-> "gen_calculate_preference_score", song |-> song,
                         config |-> cfg,
                         ret |-> gen_calculate_preference_score(song, cfg)])
    /\ UNCHANGED genVars
    /\ UNCHANGED seqVars
    /\ UNCHANGED clientVars

\* Base names and days of the week the namer is called with.
BaseNames == {<<"D", "a", "i", "l", "y", " ", "M", "i", "x">>, <<"F", "o", "c", "u", "s">>}

DaysOfWeek == {<<"M", "o", "n", "d", "a", "y">>, <<"F", "r", "i", "d", "a", "y">>, <<"S", "u", "n", "d", "a", "y">>}

\* PlaylistNaming::generate_playlist_name(name, &calculate_metadata(songs))
CallGeneratePlaylistName ==
    /\ call = None
    /\ \E list \in TrackLists, name \in BaseNames, day_of_week \in DaysOfWeek :
           LET metadata == calculate_metadata(list)
           IN  \E result \in generate_playlist_name(name, metadata, day_of_week) :
                   call' = Some([fn |-> "generate_playlist_name", name |-> name,
                                 metadata |-> metadata, day_of_week |-> day_of_week,
                                 ret |-> result])
    /\ UNCHANGED genVars
    /\ UNCHANGED seqVars
    /\ UNCHANGED clientVars

FnNext ==
    \/ CallShouldIncludeSong
    \/ CallCalculateQualityScore
    \/ CallGenCalculateQualityScore
    \/ CallCalculateBpmTransitionScore
    \/ CallCalculateTransitionScore
    \/ CallCalculateGenreCompatibilityScore
    \/ CallWouldViolateArtistRepetition
    \/ CallWouldViolateAlbumRepetition
    \/ CallWouldViolateMinDaysSinceLastPlay
    \/ CallMatchesPlayCountFilter
    \/ CallCalculateEraCohesionScore
    \/ CallCalculateBpmTransitionSmoothnessScore
    \/ CallBackupCalculateBpmTransitionScore
    \/ CallCalculatePreferenceScore
    \/ CallGenCalculatePreferenceScore
    \/ CallGeneratePlaylistName

FnSpec == FnInit /\ [][FnNext]_vars

-----------------------------------------------------------------------------
(* Properties of the helpers (FnSpec) *)

Called(f) == IsSome(call) /\ Unwrap(call).fn = f

\* The genre tags of a track as stored: the genre field and the names of the
\* genres array.
GenreTags(song) ==
    (IF IsSome(song.genre) THEN {Unwrap(song.genre)} ELSE {})
    \cup (IF IsSome(song.genres) THEN Range(Unwrap(song.genres)) ELSE {})

\* Some tag of the track contains some pattern of the list, letter case
\* ignored.
TagMatches(song, patterns) ==
    \E tag \in GenreTags(song) : \E k \in 1..Len(patterns) :
        Contains(ToLowercase(tag), ToLowercase(patterns[k]))

\* C7: should_include_song rejects every track with a genre tag matching a
\* deny-listed substring, also when the track matches the allow-list.
C7_DenyListWins ==
    ( /\ Called("should_include_song")
      /\ IsSome(Unwrap(call).config.unacceptable_genres)
      /\ TagMatches(Unwrap(call).song, Unwrap(Unwrap(call).config.unacceptable_genres)) )
    => Unwrap(call).ret = FALSE

\* C7 witness: an actual song inside the tempo range that matches both the
\* allow-list and the deny-list, and is rejected.
C7_Witness ==
    /\ Called("should_include_song")
    /\ IsSome(Unwrap(call).config.acceptable_genres)
    /\ IsSome(Unwrap(call).config.unacceptable_genres)
    /\ TagMatches(Unwrap(call).song, Unwrap(Unwrap(call).config.acceptable_genres))
    /\ TagMatches(Unwrap(call).song, Unwrap(Unwrap(call).config.unacceptable_genres))
    /\ is_actual_song(Unwrap(call).song)
    /\ matches_bpm_thresholds(Unwrap(call).song, Unwrap(call).config)
    /\ Unwrap(call).ret = FALSE

InUnitInterval(x) == FracLe(Frac(0, 1), x) /\ FracLe(x, Frac(1, 1))

FracEq(a, b) == FracLe(a, b) /\ FracLe(b, a)

\* C8 (as stated): for every non-empty track list and all non-negative
\* quality weights, calculate_quality_score (of scoring.rs and of
\* generator.rs) returns a value in [0,1], and scoring.rs returns 0.5 when all
\* its weights are zero.
C8_QualityInUnitInterval ==
    ( /\ Called("calculate_quality_score") \/ Called("gen_calculate_quality_score")
      /\ Unwrap(call).songs # <<>> )
    => /\ InUnitInterval(Unwrap(call).ret)
       /\ ( /\ Called("calculate_quality_score")
            /\ \A w \in {"artist_diversity", "bpm_transition_smoothness",
                         "genre_coherence", "popularity_balance", "era_cohesion"} :
                   Unwrap(call).config.quality_weights[w] = 0 )
          => FracEq(Unwrap(call).ret, Frac(1, 2))

\* C8 for PlaylistScoring::calculate_quality_score alone.
C8_ScoringQualityInUnitInterval ==
    ( Called("calculate_quality_score") /\ Unwrap(call).songs # <<>> )
    => InUnitInterval(Unwrap(call).ret)

\* C8 for PlaylistGenerator::calculate_quality_score alone.
C8_GeneratorQualityInUnitInterval ==
    ( Called("gen_calculate_quality_score") /\ Unwrap(call).songs # <<>> )
    => InUnitInterval(Unwrap(call).ret)

\* C8 witness: scoring.rs called on three tracks with weights that do not
\* sum to 1, returning a value inside [0,1].
C8_Witness ==
    /\ Called("calculate_quality_score")
    /\ Len(Unwrap(call).songs) = 3
    /\ Unwrap(call).config.quality_weights.genre_coherence = 300
    /\ InUnitInterval(Unwrap(call).ret)

\* C9 (as stated): with a genre_coherence weight in [0,1],
\* calculate_transition_score returns a value in [0,1], and exactly 0.5 when
\* the playlist so far is empty.
C9_TransitionInUnitInterval ==
    ( /\ Called("calculate_transition_score")
      /\ Unwrap(call).config.quality_weights.genre_coherence \in 0..100 )
    => /\ InUnitInterval(Unwrap(call).ret)
       /\ Unwrap(call).current_playlist = <<>>
              => FracEq(Unwrap(call).ret, Frac(1, 2))

\* C9 witness: a call on a non-empty playlist with both tempos known and a
\* positive max_bpm_jump.
C9_Witness ==
    /\ Called("calculate_transition_score")
    /\ Unwrap(call).config.quality_weights.genre_coherence \in 0..100
    /\ Unwrap(call).config.transition_rules.max_bpm_jump > 0
    /\ Unwrap(call).current_playlist # <<>>
    /\ IsSome(Unwrap(call).current_playlist[Len(Unwrap(call).current_playlist)].bpm)
    /\ IsSome(Unwrap(call).candidate.bpm)

\* The tempo change of a call of calculate_bpm_transition_score is in the
\* preferred direction without being the preferred change.
SameDirectionCall ==
    /\ Called("calculate_bpm_transition_score")
    /\ IsSome(Unwrap(call).song_a.bpm)
    /\ IsSome(Unwrap(call).song_b.bpm)
    /\ LET actual == Unwrap(Unwrap(call).song_b.bpm) - Unwrap(Unwrap(call).song_a.bpm)
           ideal == Unwrap(call).config.transition_rules.preferred_bpm_change
       IN  /\ actual # ideal
           /\ (ideal > 0 /\ actual > 0) \/ (ideal < 0 /\ actual < 0)

\* C10 (as stated): a tempo change in the preferred direction that is not
\* the preferred change scores in [0.5, 0.9], whatever its size.
C10_SameDirectionRange ==
    SameDirectionCall
    => /\ FracLe(Frac(1, 2), Unwrap(call).ret)
       /\ FracLe(Unwrap(call).ret, Frac(9, 10))

\* C10 witness: such a call with a positive max_bpm_jump.
C10_Witness ==
    /\ SameDirectionCall
    /\ Unwrap(call).config.transition_rules.max_bpm_jump > 0

\* C10 with max_bpm_jump > 0 only (the division is finite).
C10_SameDirectionRangePositiveJump ==
    ( SameDirectionCall /\ Unwrap(call).config.transition_rules.max_bpm_jump > 0 )
    => /\ FracLe(Frac(1, 2), Unwrap(call).ret)
       /\ FracLe(Unwrap(call).ret, Frac(9, 10))

\* C9 with max_bpm_jump > 0 only.
C9_TransitionInUnitIntervalPositiveJump ==
    ( /\ Called("calculate_transition_score")
      /\ Unwrap(call).config.quality_weights.genre_coherence \in 0..100
      /\ Unwrap(call).config.transition_rules.max_bpm_jump > 0 )
    => InUnitInterval(Unwrap(call).ret)

-----------------------------------------------------------------------------
(* Properties of FnSpec: transitions.rs wrong-direction penalty, genre      *)
(* compatibility and the repetition and recency gates.                      *)

\* The tempo change from song_a to song_b has the opposite sign to a non-zero
\* preferred_bpm_change of cfg.
WrongDirection(cfg, song_a, song_b) ==
    /\ IsSome(song_a.bpm)
    /\ IsSome(song_b.bpm)
    /\ LET actual == Unwrap(song_b.bpm) - Unwrap(song_a.bpm)
           ideal == cfg.transition_rules.preferred_bpm_change
       IN  (ideal > 0 /\ actual < 0) \/ (ideal < 0 /\ actual > 0)

WrongMagnitude(song_a, song_b) == Abs(Unwrap(song_b.bpm) - Unwrap(song_a.bpm))

WrongDirectionCall ==
    /\ Called("calculate_bpm_transition_score")
    /\ WrongDirection(Unwrap(call).config, Unwrap(call).song_a, Unwrap(call).song_b)

\* C11: a tempo change against a non-zero preferred_bpm_change scores in
\* [0.1, 0.4], and no wrong-direction change of the same profile that is at
\* least as large scores higher.
C11_WrongDirectionPenalty ==
    WrongDirectionCall
    => LET c == Unwrap(call)
       IN  /\ FracLe(Frac(1, 10), c.ret)
           /\ FracLe(c.ret, Frac(4, 10))
           /\ \A a \in ScoringSongs, b \in ScoringSongs :
                  ( /\ WrongDirection(c.config, a, b)
                    /\ WrongMagnitude(a, b) >= WrongMagnitude(c.song_a, c.song_b) )
                  => FracLe(calculate_bpm_transition_score(c.config, a, b), c.ret)

\* C11 witness: a wrong-direction call scored strictly between the two ends
\* of the range, with a larger wrong-direction change that scores strictly
\* less.
C11_Witness ==
    /\ WrongDirectionCall
    /\ LET c == Unwrap(call)
       IN  /\ FracLt(Frac(1, 10), c.ret)
           /\ FracLt(c.ret, Frac(4, 10))
           /\ \E a \in ScoringSongs, b \in ScoringSongs :
                  /\ WrongDirection(c.config, a, b)
                  /\ WrongMagnitude(a, b) > WrongMagnitude(c.song_a, c.song_b)
                  /\ FracLt(calculate_bpm_transition_score(c.config, a, b), c.ret)

\* The lowercased genre tags of a track, and the histogram of a playlist:
\* the number of its tracks carrying a tag.
LowerTags(song) == {ToLowercase(tag) : tag \in GenreTags(song)}

PlaylistTags(list) == UNION {LowerTags(list[i]) : i \in 1..Len(list)}

TagCount(list, tag) == Cardinality({i \in 1..Len(list) : tag \in LowerTags(list[i])})

SharedTags(list, song) == LowerTags(song) \cap PlaylistTags(list)

\* 0.9 - 0.8 * w and 0.5 + 0.5 * (best count / len) * w, w in hundredths.
MismatchScore(w) == Frac(900 - 8 * w, 1000)

MatchScore(list, song, w) ==
    Frac(100 * Len(list) + SetMax({TagCount(list, g) : g \in SharedTags(list, song)}) * w,
         200 * Len(list))

GenreCompatibilityCall ==
    /\ Called("calculate_genre_compatibility_score")
    /\ Unwrap(call).current_playlist # <<>>

\* C12 (as stated): on a non-empty playlist every candidate sharing no genre
\* with the playlist's histogram scores 0.9 - 0.8 * genre_coherence, tagged
\* or not, and every candidate sharing one scores 0.5 + 0.5 * best ratio *
\* genre_coherence.
C12_GenreCompatibilityAsStated ==
    GenreCompatibilityCall
    => LET c == Unwrap(call)
           w == c.config.quality_weights.genre_coherence
       IN  IF SharedTags(c.current_playlist, c.candidate) = {}
           THEN FracEq(c.ret, MismatchScore(w))
           ELSE FracEq(c.ret, MatchScore(c.current_playlist, c.candidate, w))

\* C12 (amended): the mismatch score is returned only when the candidate and
\* the playlist both carry genre tags; when either carries none the score is
\* the neutral 0.5.
C12_GenreCompatibility ==
    GenreCompatibilityCall
    => LET c == Unwrap(call)
           w == c.config.quality_weights.genre_coherence
       IN  IF LowerTags(c.candidate) = {} \/ PlaylistTags(c.current_playlist) = {}
           THEN FracEq(c.ret, Frac(1, 2))
           ELSE IF SharedTags(c.current_playlist, c.candidate) = {}
           THEN FracEq(c.ret, MismatchScore(w))
           ELSE FracEq(c.ret, MatchScore(c.current_playlist, c.candidate, w))

\* C12 witness: an untagged candidate against a tagged playlist, with a
\* genre_coherence weight for which the mismatch score is not 0.5.
C12_Witness ==
    /\ GenreCompatibilityCall
    /\ LowerTags(Unwrap(call).candidate) = {}
    /\ PlaylistTags(Unwrap(call).current_playlist) # {}
    /\ ~FracEq(MismatchScore(Unwrap(call).config.quality_weights.genre_coherence),
               Frac(1, 2))
    /\ FracEq(Unwrap(call).ret, Frac(1, 2))

\* The other cases of C12 occur: a tagged mismatch, and a match whose best
\* ratio is below 1.
C12_WitnessMismatch ==
    /\ GenreCompatibilityCall
    /\ LowerTags(Unwrap(call).candidate) # {}
    /\ PlaylistTags(Unwrap(call).current_playlist) # {}
    /\ SharedTags(Unwrap(call).current_playlist, Unwrap(call).candidate) = {}

C12_WitnessPartialMatch ==
    /\ GenreCompatibilityCall
    /\ \E g \in SharedTags(Unwrap(call).current_playlist, Unwrap(call).candidate) :
           TRUE
    /\ \A g \in SharedTags(Unwrap(call).current_playlist, Unwrap(call).candidate) :
           TagCount(Unwrap(call).current_playlist, g) < Len(Unwrap(call).current_playlist)
    /\ Unwrap(call).config.quality_weights.genre_coherence > 0

\* The last min(n, len) tracks of a playlist.
LastTracks(list, n) ==
    {list[i] : i \in {j \in 1..Len(list) : j > Len(list) - n}}

\* C13: would_violate_artist_repetition(N, placed, candidate) returns, and
\* returns true exactly when one of the last min(N, len) tracks of placed has the
\* candidate's artist; false for an empty playlist and for N = 0.
C13_ArtistRepetitionWindow ==
    Called("would_violate_artist_repetition")
    => LET c == Unwrap(call)
       IN  /\ IsSome(c.ret)
           /\ c.ret = Some(\E t \in LastTracks(c.current_playlist, c.avoid_within) :
                               t.artist = c.candidate.artist)
           /\ c.current_playlist = <<>> => c.ret = Some(FALSE)
           /\ c.avoid_within = 0 => c.ret = Some(FALSE)

\* C13 witness: a window longer than the playlist, with the candidate's
\* artist among the placed tracks.
C13_Witness ==
    /\ Called("would_violate_artist_repetition")
    /\ Unwrap(call).avoid_within > Len(Unwrap(call).current_playlist)
    /\ Unwrap(call).ret = Some(TRUE)

\* An artist outside the window, and one that differs in letter case only,
\* are not flagged.
C13_WitnessOutsideWindow ==
    /\ Called("would_violate_artist_repetition")
    /\ Unwrap(call).avoid_within > 0
    /\ \E i \in 1..Len(Unwrap(call).current_playlist) :
           Unwrap(call).current_playlist[i].artist = Unwrap(call).candidate.artist
    /\ Unwrap(call).ret = Some(FALSE)

C13_WitnessLetterCase ==
    /\ Called("would_violate_artist_repetition")
    /\ Unwrap(call).avoid_within > 0
    /\ \E t \in LastTracks(Unwrap(call).current_playlist, Unwrap(call).avoid_within) :
           /\ t.artist # Unwrap(call).candidate.artist
           /\ ToLowercase(t.artist) = ToLowercase(Unwrap(call).candidate.artist)
    /\ Unwrap(call).ret = Some(FALSE)

\* The candidate was flagged for the first p tracks of the playlist, and the
\* tracks placed since are at least as many as the window and none of them
\* has the candidate's artist (album).
ArtistWindowMovedPast(p) ==
    LET c == Unwrap(call)
        len == Len(c.current_playlist)
    IN  /\ would_violate_artist_repetition(
               c.avoid_within, SubSeq(c.current_playlist, 1, p), c.candidate) = Some(TRUE)
        /\ len - p >= c.avoid_within
        /\ \A i \in (p + 1)..len : c.current_playlist[i].artist # c.candidate.artist

AlbumWindowMovedPast(p) ==
    LET c == Unwrap(call)
        len == Len(c.current_playlist)
    IN  /\ would_violate_album_repetition(
               c.avoid_within, SubSeq(c.current_playlist, 1, p), c.candidate) = Some(TRUE)
        /\ len - p >= c.avoid_within
        /\ \A i \in (p + 1)..len : c.current_playlist[i].album # c.candidate.album

\* C14: a candidate flagged for artist (album) repetition at an earlier
\* position of the playlist is not flagged any more once window-many further
\* tracks by other artists (of other albums) have been appended.
C14_FlagExpires ==
    /\ Called("would_violate_artist_repetition")
       => \A p \in 0..Len(Unwrap(call).current_playlist) :
              ArtistWindowMovedPast(p) => Unwrap(call).ret = Some(FALSE)
    /\ Called("would_violate_album_repetition")
       => \A p \in 0..Len(Unwrap(call).current_playlist) :
              AlbumWindowMovedPast(p) => Unwrap(call).ret = Some(FALSE)

\* C14 witness: a candidate flagged for album repetition at an earlier
\* position, with at least two further tracks of other albums since.
C14_Witness ==
    /\ Called("would_violate_album_repetition")
    /\ Unwrap(call).avoid_within >= 2
    /\ \E p \in 0..Len(Unwrap(call).current_playlist) : AlbumWindowMovedPast(p)
    /\ Unwrap(call).ret = Some(FALSE)

C14_WitnessArtist ==
    /\ Called("would_violate_artist_repetition")
    /\ Unwrap(call).avoid_within >= 2
    /\ \E p \in 0..Len(Unwrap(call).current_playlist) : ArtistWindowMovedPast(p)
    /\ Unwrap(call).ret = Some(FALSE)

\* C15: would_violate_min_days_since_last_play returns a flag for every
\* candidate; without a last-played timestamp the flag is false, and with a
\* timestamp no format applies to it is that of a track played half a day
\* ago: true for min_days >= 1, false for min_days = 0.
C15_MinDaysNeverFails ==
    Called("would_violate_min_days_since_last_play")
    => LET c == Unwrap(call)
       IN  /\ c.ret \in BOOLEAN
           /\ c.candidate.played = None => c.ret = FALSE
           /\ ( IsSome(c.candidate.played) /\ ~Unwrap(c.candidate.played).rfc3339 )
              => c.ret = (c.min_days >= 1)

\* C15 witness: a timestamp no format applies to, flagged for min_days >= 1.
C15_Witness ==
    /\ Called("would_violate_min_days_since_last_play")
    /\ IsSome(Unwrap(call).candidate.played)
    /\ ~Unwrap(Unwrap(call).candidate.played).rfc3339
    /\ Unwrap(call).min_days >= 1
    /\ Unwrap(call).ret = TRUE

\* A parsed timestamp is flagged exactly when it is less than min_days old
\* (a future one counts as age 0).
C15_ParsedAge ==
    ( /\ Called("would_violate_min_days_since_last_play")
      /\ IsSome(Unwrap(call).candidate.played)
      /\ Unwrap(Unwrap(call).candidate.played).rfc3339 )
    => Unwrap(call).ret =
           (Max(Unwrap(Unwrap(call).candidate.played).halfdays, 0)
                < 2 * Unwrap(call).min_days)

(* Properties of FnSpec: the play-count filter of filters.rs *)

\* A call of matches_play_count_filter with the exact filter set to "never
\* played" (no count given).
NeverPlayedFilterCall ==
    /\ Called("matches_play_count_filter")
    /\ Unwrap(call).config.preference_weights.play_count_filter
           = Some([kind |-> "Exact", count |-> None])

\* C16 (as stated): with the exact filter set to "never played",
\* matches_play_count_filter accepts exactly the tracks whose play count is
\* absent or zero.
C16_NeverPlayedAcceptsAbsentOrZero ==
    NeverPlayedFilterCall
    => Unwrap(call).ret = ( \/ Unwrap(call).song.play_count = None
                            \/ Unwrap(call).song.play_count = Some(0) )

\* C16 witness: the filter applied to a track with a play count of zero.
C16_Witness ==
    /\ NeverPlayedFilterCall
    /\ Unwrap(call).song.play_count = Some(0)

\* What the code does: "never played" accepts exactly the tracks without a
\* play count.
C16_NeverPlayedAcceptsAbsentOnly ==
    NeverPlayedFilterCall
    => Unwrap(call).ret = (Unwrap(call).song.play_count = None)

(* Properties of FnSpec: the percentile play-count filter of filters.rs *)

\* A call of matches_play_count_filter with a percentile filter of direction
\* "top" or "bottom" and a percent from 0 to 1, on a track of the pool.
PercentileFilterCall ==
    /\ Called("matches_play_count_filter")
    /\ LET c == Unwrap(call)
           filter == c.config.preference_weights.play_count_filter
       IN  /\ IsSome(filter)
           /\ Unwrap(filter).kind = "Percentile"
           /\ Unwrap(filter).direction \in {"top", "bottom"}
           /\ Unwrap(filter).percent \in 0..100
           /\ \E i \in 1..Len(c.all_songs) : c.all_songs[i] = c.song

CallPercent == Unwrap(Unwrap(call).config.preference_weights.play_count_filter).percent

CallDirection == Unwrap(Unwrap(call).config.preference_weights.play_count_filter).direction

\* The answer of the call's filter to the call's track and pool at the
\* percentage q (in hundredths).
AcceptedAtPercent(q) ==
    matches_play_count_filter(
        Unwrap(call).song,
        [Unwrap(call).config EXCEPT !.preference_weights.play_count_filter =
             Some([kind |-> "Percentile", direction |-> CallDirection,
                   percent |-> q])],
        Unwrap(call).all_songs)

\* The percentages the accepted sets are compared at, in hundredths.
Percents == {0, 1, 25, 50, 75, 99, 100}

\* C30 (as stated): over a fixed pool, raising percent never removes a track
\* from the accepted set, for either direction (so top 0% accepts no more
\* than any larger top percentage), and bottom 100% accepts every track of
\* the pool.
C30_PercentileMonotone ==
    PercentileFilterCall
    => /\ Unwrap(call).ret
          => \A q \in Percents : q >= CallPercent => AcceptedAtPercent(q)
       /\ (CallDirection = "bottom" /\ CallPercent = 100) => Unwrap(call).ret

\* C30 witness: bottom 100% applied to a track of the pool that has been
\* played, and that bottom 50% accepts.
C30_Witness ==
    /\ PercentileFilterCall
    /\ CallDirection = "bottom"
    /\ CallPercent = 100
    /\ IsSome(Unwrap(call).song.play_count)
    /\ Unwrap(Unwrap(call).song.play_count) > 0
    /\ AcceptedAtPercent(50)

\* The other direction: top 0% accepts a track that top 50% rejects.
C30_WitnessTop ==
    /\ PercentileFilterCall
    /\ CallDirection = "top"
    /\ CallPercent = 0
    /\ Unwrap(call).ret
    /\ ~AcceptedAtPercent(50)

\* What the filter does guarantee: raising percent never removes a track as
\* long as the threshold index stays inside the pool, that is below 100% for
\* "bottom" and above 0% for "top".
C30_PercentileMonotoneInsidePool ==
    PercentileFilterCall
    => (Unwrap(call).ret
        => \A q \in Percents :
               ( /\ q >= CallPercent
                 /\ CallDirection = "bottom" => q < 100
                 /\ CallDirection = "top" => CallPercent > 0 )
               => AcceptedAtPercent(q))

(* Properties of FnSpec: sub-scores and preference score of scoring.rs *)

\* The era cohesion score of a span of years, in ten-thousandths.
EraScoreOfSpan(span) == calculate_era_cohesion_score(<<Some(1950), Some(1950 + span)>>)

KnownSpanCall ==
    /\ Called("calculate_era_cohesion_score")
    /\ IsSome(Unwrap(call).era_span[1])
    /\ IsSome(Unwrap(call).era_span[2])

CallSpan == Unwrap(Unwrap(call).era_span[2]) - Unwrap(Unwrap(call).era_span[1])

\* C17: calculate_era_cohesion_score is in [0, 1] and non-increasing in the
\* year span; it is 1.0 up to a span of 2, every span above 20 scores
\* strictly less than every span of at most 10, and without a known year the
\* score is 0.5.
C17_EraCohesionMonotone ==
    /\ KnownSpanCall
       => /\ Unwrap(call).ret \in 0..10000
          /\ Unwrap(call).ret = EraScoreOfSpan(CallSpan)
          /\ \A wider \in 0..MaxSpan :
                 wider >= CallSpan => EraScoreOfSpan(wider) <= Unwrap(call).ret
          /\ CallSpan <= 2 => Unwrap(call).ret = 10000
          /\ CallSpan > 20
             => \A decade \in 0..10 : Unwrap(call).ret < EraScoreOfSpan(decade)
    /\ ( Called("calculate_era_cohesion_score") /\ ~KnownSpanCall )
       => Unwrap(call).ret = 5000

\* C17 witness: a span so wide that the floor of the last bracket applies.
C17_Witness ==
    /\ KnownSpanCall
    /\ CallSpan > 70
    /\ Unwrap(call).ret = 0

C17_WitnessNoYear ==
    /\ Called("calculate_era_cohesion_score")
    /\ Unwrap(call).era_span = <<None, None>>
    /\ Unwrap(call).ret = 5000

\* The consecutive pairs of a track list with both tempos known, the number
\* of known tempos, and the average of the curve of C18 over those pairs
\* (<= 5 bpm 1.0, <= 15 down to 0.7, <= 30 down to 0.3, then toward 0), in
\* units of 1/2100.
KnownPairs(list) ==
    {i \in 1..(Len(list) - 1) : IsSome(list[i].bpm) /\ IsSome(list[i + 1].bpm)}

KnownTempoCount(list) == Cardinality({i \in 1..Len(list) : IsSome(list[i].bpm)})

CurveOfDelta(delta) ==
    IF delta <= 5 THEN 2100
    ELSE IF delta <= 15 THEN 2100 - 63 * (delta - 5)
    ELSE IF delta <= 30 THEN 1470 - 56 * (delta - 15)
    ELSE IF delta <= 100 THEN 630 - 9 * (delta - 30)
    ELSE 0

CurveAverage(list) ==
    Frac(SumFn([i \in KnownPairs(list) |->
                    CurveOfDelta(Abs(Unwrap(list[i + 1].bpm) - Unwrap(list[i].bpm)))],
               KnownPairs(list)),
         2100 * Cardinality(KnownPairs(list)))

\* C18 (as stated): the smoothness sub-score of a track list is the neutral
\* 0.5 when the list has fewer than 2 known tempos, a single track
\* included, and otherwise the average of the curve over the consecutive
\* pairs with both tempos known.
C18_SmoothnessIsCurveAverage ==
    Called("calculate_bpm_transition_smoothness_score")
    => LET c == Unwrap(call)
       IN  /\ KnownTempoCount(c.songs) < 2 => c.ret = 5000
           /\ KnownPairs(c.songs) # {}
              => FracEq(Frac(c.ret, 10000), CurveAverage(c.songs))

\* C18 witness: the sub-score of a single track.
C18_Witness ==
    /\ Called("calculate_bpm_transition_smoothness_score")
    /\ Len(Unwrap(call).songs) = 1

\* What scoring.rs does: lists of at most one track score 1.0, lists without
\* a consecutive known pair 0.5, and a list with exactly one such pair
\* 1 - delta / 60, floored at 0.
C18_LinearInAverageJump ==
    Called("calculate_bpm_transition_smoothness_score")
    => LET c == Unwrap(call)
       IN  /\ Len(c.songs) <= 1 => c.ret = 10000
           /\ ( Len(c.songs) > 1 /\ KnownPairs(c.songs) = {} ) => c.ret = 5000
           /\ \A i \in KnownPairs(c.songs) :
                  KnownPairs(c.songs) = {i}
                  => c.ret = Max((10000 * (60 - Abs(Unwrap(c.songs[i + 1].bpm)
                                                    - Unwrap(c.songs[i].bpm)))) \div 60,
                                 0)

\* The copy in generator_backup.rs follows the curve whenever no track of
\* unknown tempo lies between two of known tempo.
C18_BackupIsCurveAverage ==
    Called("backup_calculate_bpm_transition_score")
    => LET c == Unwrap(call)
       IN  /\ KnownTempoCount(c.songs) < 2 => FracEq(c.ret, Frac(1, 2))
           /\ ( KnownTempoCount(c.songs) >= 2
                /\ Cardinality(KnownPairs(c.songs)) = KnownTempoCount(c.songs) - 1 )
              => FracEq(c.ret, CurveAverage(c.songs))

\* A discovery-mode call of one of the two calculate_preference_score, and
\* the score the same function gives the same track with another play count.
DiscoveryCall ==
    /\ Called("calculate_preference_score") \/ Called("gen_calculate_preference_score")
    /\ Unwrap(call).config.preference_weights.discovery_mode

ScoreWithPlayCount(pc) ==
    LET c == Unwrap(call)
        other == [c.song EXCEPT !.play_count = pc]
    IN  IF c.fn = "calculate_preference_score"
        THEN calculate_preference_score(other, c.config)
        ELSE gen_calculate_preference_score(other, c.config)

Unplayed(song) == song.play_count \in {None, Some(0)}

\* unplayed > played twice > played fifty times, and no increase as the play
\* count grows, for the call in the current state.
DiscoveryOrder ==
    LET c == Unwrap(call)
    IN  /\ Unplayed(c.song) => ScoreWithPlayCount(Some(2)) < c.ret
        /\ c.song.play_count = Some(2) => ScoreWithPlayCount(Some(50)) < c.ret

DiscoveryNonIncreasing ==
    LET c == Unwrap(call)
    IN  IsSome(c.song.play_count)
        => \A pc \in PlayCounts :
               ( IsSome(pc) /\ Unwrap(pc) >= Unwrap(c.song.play_count) )
               => ScoreWithPlayCount(pc) <= c.ret

C19_WitnessZeroWeight ==
    /\ Called("calculate_preference_score")
    /\ Unwrap(call).config.preference_weights.discovery_mode
    /\ Unwrap(call).config.preference_weights.play_count_weight = 0
    /\ Unplayed(Unwrap(call).song)
    /\ ScoreWithPlayCount(Some(2)) = Unwrap(call).ret

(* Properties of FnSpec: the namer of utils.rs *)

\* The most frequent genres of a metadata value, and whether the most
\* frequent genre covers at least 40% of the tracks.
MostFrequentGenres(metadata) ==
    {g \in DOMAIN metadata.genre_distribution :
        \A k \in DOMAIN metadata.genre_distribution :
            metadata.genre_distribution[g] >= metadata.genre_distribution[k]}

HasDominantGenre(metadata) ==
    \E g \in MostFrequentGenres(metadata) :
        10 * metadata.genre_distribution[g] >= 4 * metadata.total_songs

\* The name ends with a most frequent genre, or with a word of the pool.
CarriesDominantGenre(name, metadata) ==
    \E g \in MostFrequentGenres(metadata) : EndsWith(name, <<" ">> \o g)

DescriptorPool ==
    {<<"t", "u", "n", "e", "s">>, <<"v", "i", "b", "e", "s">>, <<"j", "a", "m", "s">>, <<"m", "e", "l", "o", "d", "i", "e", "s">>, <<"g", "r", "o", "o", "v", "e", "s">>, <<"b", "e", "a", "t", "s">>,
     <<"r", "h", "y", "t", "h", "m", "s">>, <<"s", "o", "u", "n", "d", "s">>, <<"t", "r", "a", "c", "k", "s">>}

CarriesDescriptor(name) == \E word \in DescriptorPool : EndsWith(name, <<" ">> \o word)

\* C20 (as stated): the name carries the dominant genre exactly when the most
\* frequent genre's count is at least 40% of the track count, and carries a
\* descriptor word of the pool otherwise; no name carries neither.
C20_NameCarriesGenreOrDescriptor ==
    Called("generate_playlist_name")
    => LET c == Unwrap(call)
       IN  /\ CarriesDominantGenre(c.ret, c.metadata) <=> HasDominantGenre(c.metadata)
           /\ ~HasDominantGenre(c.metadata) => CarriesDescriptor(c.ret)
           /\ CarriesDominantGenre(c.ret, c.metadata) \/ CarriesDescriptor(c.ret)

\* C20 witness: the namer called with the metadata of tracks none of which
\* has a genre tag.
C20_Witness ==
    /\ Called("generate_playlist_name")
    /\ DOMAIN Unwrap(call).metadata.genre_distribution = {}
    /\ Unwrap(call).metadata.total_songs > 0

\* What the code does: C20 holds whenever some track has a genre tag, and
\* without any the base name is returned as it is.
C20_NameOfTaggedTracks ==
    ( Called("generate_playlist_name")
      /\ DOMAIN Unwrap(call).metadata.genre_distribution # {} )
    => LET c == Unwrap(call)
       IN  /\ CarriesDominantGenre(c.ret, c.metadata) <=> HasDominantGenre(c.metadata)
           /\ ~HasDominantGenre(c.metadata) => CarriesDescriptor(c.ret)

C20_BaseNameOfUntaggedTracks ==
    ( Called("generate_playlist_name")
      /\ DOMAIN Unwrap(call).metadata.genre_distribution = {} )
    => Unwrap(call).ret = Unwrap(call).name

C20_WitnessDescriptor ==
    /\ Called("generate_playlist_name")
    /\ DOMAIN Unwrap(call).metadata.genre_distribution # {}
    /\ ~HasDominantGenre(Unwrap(call).metadata)
    /\ CarriesDescriptor(Unwrap(call).ret)

-----------------------------------------------------------------------------
(* utils.rs: PlaylistOrdering.  A transition score is [nan, v]: whether the *)
(* f32 is NaN, and otherwise its value in units of 1 / (50 * max_bpm_jump)  *)
(* (1 / 50 when max_bpm_jump is 0).                                         *)

ScoreUnit(max_bpm_jump) == IF max_bpm_jump = 0 THEN 1 ELSE max_bpm_jump

\* PlaylistOrdering::calculate_artist_diversity_score: -1, 0 or 1
ord_calculate_artist_diversity_score(candidate, playlist_so_far, avoid_repeats_within) ==
    IF avoid_repeats_within = 0 THEN 0
    ELSE LET candidate_artist == ToLowercase(candidate.artist)
             \* len.saturating_sub(avoid_repeats_within), as a 1-based index
             window_start == Max(Len(playlist_so_far) - avoid_repeats_within, 0) + 1
         IN  IF \E i \in window_start..Len(playlist_so_far) :
                    ToLowercase(playlist_so_far[i].artist) = candidate_artist
             THEN -1
             ELSE 1

\* PlaylistOrdering::calculate_bpm_transition_score, times 50 * unit
ord_calculate_bpm_transition_score(current, candidate, max_bpm_jump, preferred_bpm_change) ==
    IF ~(IsSome(current.bpm) /\ IsSome(candidate.bpm))
    THEN [nan |-> FALSE, v |-> 0]
    ELSE LET bpm_change == Unwrap(candidate.bpm) - Unwrap(current.bpm)
             bpm_jump == Abs(bpm_change)
             unit == ScoreUnit(max_bpm_jump)
             \* 0.0, 0.3 or -0.1
             direction_bonus ==
                 IF preferred_bpm_change = 0 THEN 0
                 ELSE IF \/ (preferred_bpm_change > 0 /\ bpm_change > 0)
                         \/ (preferred_bpm_change < 0 /\ bpm_change < 0)
                 THEN 15 * unit
                 ELSE -5 * unit
         IN  IF bpm_jump > max_bpm_jump THEN [nan |-> FALSE, v |-> -25 * unit]
             ELSE IF max_bpm_jump = 0
             THEN \* bpm_jump = 0: 1.0 - 0.0 / 0.0 is NaN
                  [nan |-> TRUE, v |-> 0]
             ELSE [nan |-> FALSE,
                   v |-> 50 * (max_bpm_jump - bpm_jump) + direction_bonus]

\* PlaylistOrdering::calculate_transition_score: artist * 0.4 + bpm * 0.6,
\* times 50 * unit
ord_calculate_transition_score(current, candidate, playlist_so_far, rules) ==
    LET artist_penalty ==
            ord_calculate_artist_diversity_score(
                candidate, playlist_so_far, rules.avoid_artist_repeats_within)
        bpm_score ==
            ord_calculate_bpm_transition_score(
                current, candidate, rules.max_bpm_jump, rules.preferred_bpm_change)
    IN  [nan |-> bpm_score.nan,
         v |-> 20 * ScoreUnit(rules.max_bpm_jump) * artist_penalty
               + (6 * bpm_score.v) \div 10]

\* The candidate scan of create_optimal_sequence: the 0-based index of the
\* first candidate whose score is greater than every earlier one's, 0 when
\* no score is greater than -inf (a NaN is greater than nothing).
best_candidate(current_song, candidates, playlist_so_far, rules) ==
    LET score == [i \in 1..Len(candidates) |->
            ord_calculate_transition_score(
                current_song, candidates[i], playlist_so_far, rules)]
        comparable == {i \in 1..Len(candidates) : ~score[i].nan}
    IN  IF comparable = {} THEN 0
        ELSE (CHOOSE i \in comparable :
                 /\ \A j \in comparable : score[j].v <= score[i].v
                 /\ \A j \in comparable : j < i => score[j].v < score[i].v) - 1

\* Vec::remove that drops the last element whatever the index: what C24
\* rules out (the moved candidate stays, another is lost).
RemoveLast(s, index) == SubSeq(s, 1, Len(s) - 1)

\* Vec::remove(index), index 0-based
RemoveAt(s, index) ==
    SubSeq(s, 1, index) \o SubSeq(s, index + 2, Len(s))

-----------------------------------------------------------------------------
(* SeqSpec: one run of PlaylistOrdering::create_optimal_sequence *)

SeqSong(id, artist, bpm, play_count) ==
    [id |-> id, title |-> <<"T", "r", "a", "c", "k">>, artist |-> artist, album |-> <<"A", "l", "b", "u", "m">>,
     genre |-> None, genres |-> None, bpm |-> bpm, duration |-> Some(200),
     year |-> None, play_count |-> play_count, played |-> None, starred |-> None]

\* Two artists (one spelt in both letter cases), tempos 100, 100, 108 and
\* 130, and a track of unknown tempo; play counts 50, 10, 3, 3 and none, so
\* that the tracks differ in preference score.
SeqCatalogue ==
    {SeqSong(<<"s", "1">>, <<"A", "n", "n">>, Some(100), Some(50)),
     SeqSong(<<"s", "2">>, <<"A", "N", "N">>, Some(108), Some(10)),
     SeqSong(<<"s", "3">>, <<"B", "o", "b">>, Some(130), Some(3)),
     SeqSong(<<"s", "4">>, <<"B", "o", "b">>, Some(100), Some(3)),
     SeqSong(<<"s", "5">>, <<"C", "y">>, None, None)}

\* max_bpm_jump, preferred_bpm_change, avoid_artist_repeats_within
SeqRules ==
    {[max_bpm_jump |-> r[1], preferred_bpm_change |-> r[2],
      avoid_artist_repeats_within |-> r[3]] :
        r \in {<<10, 0, 0>>, <<10, 0, 1>>, <<10, 5, 2>>, <<10, -5, 3>>,
               <<40, 5, 1>>, <<20, 5, 1>>, <<0, 0, 0>>, <<0, 5, 2>>}}

SeqInit ==
    /\ GenIdle
    /\ call = None
    /\ ClientIdle
    /\ seq_songs \in SeqsNoRepeat(SeqCatalogue, MaxSeqPool)
    /\ remaining = seq_songs
    /\ selected = <<>>
    /\ transition_rules \in SeqRules
    /\ seq_target \in 0..(MaxSeqPool + 1)
    /\ best_candidate_index = 0
    /\ seq_pc = "start"

\* songs.is_empty() -> return Vec::new()
SeqReturnEmpty ==
    /\ seq_pc = "start"
    /\ remaining = <<>>
    /\ seq_pc' = "done"
    /\ UNCHANGED <<seq_songs, remaining, selected, transition_rules, seq_target,
                   best_candidate_index>>
    /\ UNCHANGED genVars
    /\ UNCHANGED call
    /\ UNCHANGED clientVars

\* target_length.min(songs.len()); selected.push(remaining.pop())
SeqStart ==
    /\ seq_pc = "start"
    /\ remaining # <<>>
    /\ seq_target' = Min(seq_target, Len(remaining))
    /\ selected' = <<remaining[Len(remaining)]>>
    /\ remaining' = SubSeq(remaining, 1, Len(remaining) - 1)
    /\ seq_pc' = "loop"
    /\ UNCHANGED <<seq_songs, transition_rules, best_candidate_index>>
    /\ UNCHANGED genVars
    /\ UNCHANGED call
    /\ UNCHANGED clientVars

\* One iteration of the while loop: scan the candidates, move the best one.
SeqStep ==
    /\ seq_pc = "loop"
    /\ Len(selected) < seq_target
    /\ remaining # <<>>
    /\ LET current_song == selected[Len(selected)]
           index == best_candidate(current_song, remaining, selected,
                                   transition_rules)
       IN  /\ best_candidate_index' = index
           /\ selected' = Append(selected, remaining[index + 1])
           /\ remaining' = RemoveAt(remaining, index)
    /\ UNCHANGED <<seq_songs, transition_rules, seq_target, seq_pc>>
    /\ UNCHANGED genVars
    /\ UNCHANGED call
    /\ UNCHANGED clientVars

\* The loop condition fails: return selected.
SeqReturn ==
    /\ seq_pc = "loop"
    /\ ~(Len(selected) < seq_target /\ remaining # <<>>)
    /\ seq_pc' = "done"
    /\ UNCHANGED <<seq_songs, remaining, selected, transition_rules, seq_target,
                   best_candidate_index>>
    /\ UNCHANGED genVars
    /\ UNCHANGED call
    /\ UNCHANGED clientVars

SeqNext ==
    \/ SeqReturnEmpty
    \/ SeqStart
    \/ SeqStep
    \/ SeqReturn

SeqSpec == SeqInit /\ [][SeqNext]_vars

-----------------------------------------------------------------------------
(* Properties of create_optimal_sequence (SeqSpec) *)

BothTemposKnown(a, b) == IsSome(a.bpm) /\ IsSome(b.bpm)

\* |b.tempo - a.tempo| > max_bpm_jump, both tempos known
ExceedsJump(a, b) ==
    /\ BothTemposKnown(a, b)
    /\ Abs(Unwrap(b.bpm) - Unwrap(a.bpm)) > transition_rules.max_bpm_jump

\* |b.tempo - a.tempo| <= max_bpm_jump, both tempos known
WithinJump(a, b) ==
    /\ BothTemposKnown(a, b)
    /\ Abs(Unwrap(b.bpm) - Unwrap(a.bpm)) <= transition_rules.max_bpm_jump

\* The candidates that remained when selected[k] was appended, other than
\* selected[k] itself: the tracks placed later and those still remaining.
PassedOver(k) ==
    {selected[j] : j \in (k + 1)..Len(selected)} \cup Range(remaining)

\* The track at place k repeats (letter case ignored) an artist of the
\* avoid_artist_repeats_within tracks placed before it.
RepeatsArtist(song, k) ==
    \E i \in 1..(k - 1) :
        /\ k - i <= transition_rules.avoid_artist_repeats_within
        /\ ToLowercase(selected[i].artist) = ToLowercase(song.artist)

\* C4 (as stated): no track is appended whose tempo differs from the last
\* placed track's by more than max_bpm_jump (both known) while a remaining
\* candidate is within max_bpm_jump of the last placed track.
C4_NoAvoidableTempoJump ==
    seq_pc # "start" =>
        \A k \in 2..Len(selected) :
            ExceedsJump(selected[k - 1], selected[k])
            => \A c \in PassedOver(k) : ~WithinJump(selected[k - 1], c)

\* What the scan does guarantee about the tempo ceiling: a track above it is
\* appended while a remaining candidate is within it only if max_bpm_jump is
\* 0 (the candidate within the ceiling then scores NaN), or every such
\* candidate repeats an artist of the last avoid_artist_repeats_within placed
\* tracks and the appended track does not.
C4_TempoJumpOnlyForArtist ==
    seq_pc # "start" =>
        \A k \in 2..Len(selected) :
            ExceedsJump(selected[k - 1], selected[k])
            => \A c \in PassedOver(k) :
                   WithinJump(selected[k - 1], c)
                   => \/ transition_rules.max_bpm_jump = 0
                      \/ /\ RepeatsArtist(c, k)
                         /\ ~RepeatsArtist(selected[k], k)

\* C4 witness: the claim's case with the outcome it promises: with a positive
\* max_bpm_jump, a candidate within the ceiling was appended while a
\* candidate above the ceiling, not repeating an artist, was passed over.
C4_Witness ==
    /\ seq_pc = "done"
    /\ transition_rules.max_bpm_jump > 0
    /\ \E k \in 2..Len(selected) :
           /\ WithinJump(selected[k - 1], selected[k])
           /\ \E c \in PassedOver(k) :
                  /\ ExceedsJump(selected[k - 1], c)
                  /\ ~RepeatsArtist(c, k)

\* SeqLiveSpec: create_optimal_sequence runs on: the function is one thread
\* of straight-line code and loops, so a step that can be taken is taken.
SeqLiveSpec == SeqSpec /\ WF_vars(SeqNext)

\* C21 (as stated): when create_optimal_sequence returns, the number of
\* selected tracks equals target_length or no candidate remains, and the
\* result never has more than target_length tracks.
C21_StopsAtTargetOrExhausted ==
    seq_pc = "done"
    => /\ Len(selected) = seq_target \/ remaining = <<>>
       /\ Len(selected) <= seq_target

\* C21 witness: a return with target_length 0 from a pool of several tracks.
C21_Witness ==
    /\ seq_pc = "done"
    /\ seq_target = 0
    /\ Len(seq_songs) >= 2

\* create_optimal_sequence terminates (under SeqLiveSpec).
C21_Terminates == <>(seq_pc = "done")

\* What the code guarantees: for target_length >= 1 the claim's terminal
\* states, and for target_length 0 one track from a non-empty pool.
C21_StopsAtTargetOrExhaustedFromOne ==
    seq_pc = "done"
    => IF seq_target >= 1 \/ seq_songs = <<>>
       THEN /\ Len(selected) = seq_target \/ remaining = <<>>
            /\ Len(selected) <= seq_target
       ELSE Len(selected) = 1

\* C22 (as stated): no track is appended whose artist occurs among the last
\* avoid_artist_repeats_within placed tracks while some remaining candidate's
\* artist does not occur there.
C22_NoAvoidableArtistRepeat ==
    seq_pc # "start" =>
        \A k \in 2..Len(selected) :
            RepeatsArtist(selected[k], k)
            => \A c \in PassedOver(k) : RepeatsArtist(c, k)

\* C22 witness: with a positive max_bpm_jump, a track repeating a recent
\* artist was appended while a candidate not repeating one remained.
C22_Witness ==
    /\ seq_pc = "done"
    /\ transition_rules.max_bpm_jump > 0
    /\ \E k \in 2..Len(selected) :
           /\ RepeatsArtist(selected[k], k)
           /\ \E c \in PassedOver(k) : ~RepeatsArtist(c, k)

\* What the scan does guarantee about artist repeats: a repeating track is
\* appended over a non-repeating candidate only on the strength of its tempo
\* score (its tempo and the last placed track's are both known), or when
\* max_bpm_jump is 0 (the non-repeating candidate may then score NaN).
C22_ArtistRepeatOnlyForTempo ==
    seq_pc # "start" =>
        \A k \in 2..Len(selected) :
            RepeatsArtist(selected[k], k)
            => \A c \in PassedOver(k) :
                   \/ RepeatsArtist(c, k)
                   \/ transition_rules.max_bpm_jump = 0
                   \/ BothTemposKnown(selected[k - 1], selected[k])

\* The other outcome of C22's case: a non-repeating track was appended while
\* a candidate repeating a recent artist was passed over.
C22_WitnessSkipped ==
    /\ seq_pc = "done"
    /\ \E k \in 2..Len(selected) :
           /\ ~RepeatsArtist(selected[k], k)
           /\ \E c \in PassedOver(k) : RepeatsArtist(c, k)

\* The pool is sorted by descending preference score (scoring.rs, with the
\* weights of BaseConfig).
SortedByPreference(pool) ==
    \A i \in 1..(Len(pool) - 1) :
        calculate_preference_score(pool[i], BaseConfig)
            >= calculate_preference_score(pool[i + 1], BaseConfig)

\* C23 (as stated): given a pool sorted by descending preference score, the
\* first track of the returned sequence is the first track of the pool.
C23_StartsWithHighestScored ==
    (seq_pc # "start" /\ seq_songs # <<>> /\ SortedByPreference(seq_songs))
    => /\ selected # <<>>
       /\ selected[1] = seq_songs[1]

\* C23 witness: a pool of several tracks whose first track scores strictly
\* higher than its last has been sequenced.
C23_Witness ==
    /\ seq_pc = "done"
    /\ Len(seq_songs) >= 2
    /\ SortedByPreference(seq_songs)
    /\ calculate_preference_score(seq_songs[1], BaseConfig)
           > calculate_preference_score(seq_songs[Len(seq_songs)], BaseConfig)
    /\ selected # <<>>

\* What remaining.pop() does: the sequence starts with the last track of the
\* pool, for a descending pool its lowest-scored track.
C23_StartsWithLastOfPool ==
    (seq_pc # "start" /\ seq_songs # <<>>)
    => /\ selected # <<>>
       /\ selected[1] = seq_songs[Len(seq_songs)]

\* The number of places of the sequence s that hold x.
CountIn(s, x) == Cardinality({i \in DOMAIN s : s[i] = x})

\* C24: at every step of create_optimal_sequence the selected tracks together
\* with the remaining tracks are exactly the input pool as a multiset: no
\* input track is selected twice, none is lost, and only input tracks occur.
C24_PoolPreserved ==
    /\ \A song \in SeqCatalogue :
           CountIn(selected, song) + CountIn(remaining, song)
               = CountIn(seq_songs, song)
    /\ Range(selected) \cup Range(remaining) \subseteq Range(seq_songs)

\* C24 witness: the loop has moved candidates and stopped with one left over.
C24_Witness ==
    /\ seq_pc = "done"
    /\ Len(selected) >= 2
    /\ remaining # <<>>

-----------------------------------------------------------------------------
(* client.rs: SubsonicClient.  Song and playlist ids are numbers (the code  *)
(* only compares them); playlist names are strings.  One run of one of the  *)
(* public methods against a server whose answers are not under the          *)
(* client's control: a request may fail, and getRandomSongs may return any  *)
(* batch.                                                                   *)

\* let max_per_request = 500
max_per_request == 500

\* let max_attempts = 20
max_attempts == 20

\* count.unwrap_or(100)
DefaultCount == 100

\* The song ids a to b, in order.
Ids(a, b) == [i \in 1..(b - a + 1) |-> a + i - 1]

\* What the server may answer to one getRandomSongs request: nothing, a batch
\* naming a song twice, and batches of 300, 300 and 500 songs that overlap,
\* out of a library of MaxLibrary songs.
ServerBatches ==
    {<<>>, <<1, 1, 2>>, Ids(1, 300), Ids(201, max_per_request),
     Ids(MaxLibrary - 499, MaxLibrary)}

\* fetch_songs(count)
RequestedCounts ==
    {None, Some(0), Some(2), Some(max_per_request), Some(max_per_request + 1),
     Some(MaxLibrary), Some(MaxLibrary + 100)}

\* The ids of s in order, each at its first occurrence only.
RECURSIVE FirstOccurrences(_)
FirstOccurrences(s) ==
    IF Cardinality(Range(s)) = Len(s) THEN s
    ELSE LET front == FirstOccurrences(SubSeq(s, 1, Len(s) - 1))
         IN  IF s[Len(s)] \in Range(front) THEN front
             ELSE Append(front, s[Len(s)])

\* The for loop over one batch: every song whose id is not in seen_ids is
\* pushed and its id inserted, until all_songs holds desired_count songs.
\* (The loop runs with all_songs.len() < desired_count.)
PushNewSongs(collected, seen, batch, desired_count) ==
    LET fresh == FirstOccurrences(SelectSeq(batch, LAMBDA id : id \notin seen))
        pushed == SubSeq(fresh, 1, Min(Len(fresh), desired_count - Len(collected)))
    IN  [all_songs |-> collected \o pushed,
         seen_ids |-> seen \cup Range(pushed)]

Ok(value) == [ok |-> TRUE, value |-> value]
Err == [ok |-> FALSE]

\* PlaylistInfo as the server lists it, with the songs the playlist holds.
ServerPlaylist(id, name, song_ids) == [id |-> id, name |-> name, songs |-> song_ids]

\* The names of the playlists on the server before the call.
ServerNames == {<<"M", "i", "x", " ", "a">>, <<"M", "I", "X", " ", "b">>, <<"J", "a", "z", "z">>}

\* The server before the call: up to MaxPlaylists playlists, ids by position,
\* each holding one old song.
ServerStates ==
    UNION {{[i \in 1..n |-> ServerPlaylist(i, names[i], <<90 + i>>)] :
                names \in [1..n -> ServerNames]} : n \in 0..MaxPlaylists}

\* The id the server gives the next playlist it creates.
NewPlaylistId == MaxPlaylists + 1

\* name and base_name_pattern as main.rs passes them (the generated name and
\* the configured base name), and a name equal to its pattern.
PlaylistRequests ==
    {[name |-> <<"M", "i", "x", " ", "a">>, base_name_pattern |-> <<"M", "i", "x">>],
     [name |-> <<"M", "i", "x", " ", "c">>, base_name_pattern |-> <<"m", "i", "x">>],
     [name |-> <<"J", "a", "z", "z">>, base_name_pattern |-> <<"J", "a", "z", "z">>]}

\* song_ids
NewSongIds == <<1, 2>>

\* p.name.to_lowercase().starts_with(base_name_pattern.to_lowercase())
matching_playlists(existing_playlists, base_name_pattern) ==
    SelectSeq(existing_playlists,
              LAMBDA p : StartsWith(ToLowercase(p.name),
                                    ToLowercase(base_name_pattern)))

\* existing_playlists.iter().find(|p| p.name == name), as a list
playlists_named(existing_playlists, name) ==
    SelectSeq(existing_playlists, LAMBDA p : p.name = name)

\* fetch_songs: desired_count
desired_count ==
    IF IsSome(Unwrap(client_call).count) THEN Unwrap(Unwrap(client_call).count)
    ELSE DefaultCount

ClientInit ==
    /\ GenIdle
    /\ SeqIdle
    /\ call = None
    /\ \/ /\ \E count \in RequestedCounts :
                 client_call = Some([fn |-> "fetch_songs", count |-> count])
          /\ server_playlists = <<>>
       \/ /\ \E r \in PlaylistRequests :
                 \/ client_call = Some([fn |-> "create_playlist", name |-> r.name,
                                        song_ids |-> NewSongIds])
                 \/ client_call =
                        Some([fn |-> "create_playlist_with_pattern_cleanup",
                              name |-> r.name,
                              base_name_pattern |-> r.base_name_pattern,
                              song_ids |-> NewSongIds])
          /\ server_playlists \in ServerStates
    /\ client_pc = "start"
    /\ existing = None
    /\ fetch_all_songs = <<>>
    /\ seen_ids = {}
    /\ attempts = 0
    /\ batch_requests = 0
    /\ client_ret = None

\* A loop condition that allows one attempt more: what C27 rules out.
LoopOnceMore(len, count, tries) == len < count /\ tries <= max_attempts

\* while all_songs.len() < desired_count as usize && attempts < max_attempts
fetch_loop_condition(len, count, tries) == len < count /\ tries < max_attempts

\* fetch_songs, desired_count <= max_per_request:
\* return self.fetch_songs_batch(desired_count)
FetchSongsSingle ==
    /\ client_pc = "start"
    /\ Unwrap(client_call).fn = "fetch_songs"
    /\ desired_count <= max_per_request
    /\ batch_requests' = batch_requests + 1
    /\ \E ok \in BOOLEAN, batch \in ServerBatches :
           IF ok
           THEN client_ret' = Some(Ok(batch)) /\ client_pc' = "done"
           ELSE client_ret' = Some(Err) /\ client_pc' = "failed"
    /\ UNCHANGED <<client_call, server_playlists, existing, fetch_all_songs,
                   seen_ids, attempts>>
    /\ UNCHANGED <<genVars, seqVars, call>>

\* fetch_songs, desired_count > max_per_request: enter the loop
FetchSongsBegin ==
    /\ client_pc = "start"
    /\ Unwrap(client_call).fn = "fetch_songs"
    /\ desired_count > max_per_request
    /\ fetch_all_songs' = <<>>
    /\ seen_ids' = {}
    /\ attempts' = 0
    /\ client_pc' = "fetch_loop"
    /\ UNCHANGED <<client_call, server_playlists, existing, batch_requests,
                   client_ret>>
    /\ UNCHANGED <<genVars, seqVars, call>>

\* One iteration of the while loop: one batch request, its new songs pushed.
FetchSongsBatch ==
    /\ client_pc = "fetch_loop"
    /\ fetch_loop_condition(Len(fetch_all_songs), desired_count, attempts)
    /\ attempts' = attempts + 1
    /\ batch_requests' = batch_requests + 1
    /\ \E ok \in BOOLEAN, batch \in ServerBatches :
           IF ok
           THEN LET pushed == PushNewSongs(fetch_all_songs, seen_ids, batch,
                                           desired_count)
                IN  /\ fetch_all_songs' = pushed.all_songs
                    /\ seen_ids' = pushed.seen_ids
                    /\ UNCHANGED <<client_pc, client_ret>>
           ELSE \* self.fetch_songs_batch(max_per_request)?
                /\ client_ret' = Some(Err)
                /\ client_pc' = "failed"
                /\ UNCHANGED <<fetch_all_songs, seen_ids>>
    /\ UNCHANGED <<client_call, server_playlists, existing>>
    /\ UNCHANGED <<genVars, seqVars, call>>

\* The loop condition fails: Ok(all_songs)
FetchSongsReturn ==
    /\ client_pc = "fetch_loop"
    /\ ~fetch_loop_condition(Len(fetch_all_songs), desired_count, attempts)
    /\ client_ret' = Some(Ok(fetch_all_songs))
    /\ client_pc' = "done"
    /\ UNCHANGED <<client_call, server_playlists, existing, fetch_all_songs,
                   seen_ids, attempts, batch_requests>>
    /\ UNCHANGED <<genVars, seqVars, call>>

\* create_playlist_with_pattern_cleanup: get_playlists (which may fail) and
\* the branch on matching_playlists.first()
CleanupGetPlaylists ==
    /\ client_pc = "start"
    /\ Unwrap(client_call).fn = "create_playlist_with_pattern_cleanup"
    /\ \E ok \in BOOLEAN :
           LET matching ==
                   IF ok
                   THEN matching_playlists(server_playlists,
                                           Unwrap(client_call).base_name_pattern)
                   ELSE <<>>
           IN  IF matching # <<>>
               THEN existing' = Some(matching[1].id) /\ client_pc' = "update_playlist"
               ELSE existing' = None /\ client_pc' = "create_playlist"
    /\ UNCHANGED <<client_call, server_playlists, fetch_all_songs, seen_ids,
                   attempts, batch_requests, client_ret>>
    /\ UNCHANGED <<genVars, seqVars, call>>

\* update_playlist: getPlaylist, then updatePlaylist removing every old track
\* and adding song_ids under the new name; either request may fail.
UpdatePlaylist ==
    /\ client_pc = "update_playlist"
    /\ \E ok \in BOOLEAN :
           IF ok
           THEN /\ server_playlists' =
                       [i \in DOMAIN server_playlists |->
                           IF server_playlists[i].id = Unwrap(existing)
                           THEN ServerPlaylist(Unwrap(existing),
                                               Unwrap(client_call).name,
                                               Unwrap(client_call).song_ids)
                           ELSE server_playlists[i]]
                /\ client_ret' = Some(Ok(Unwrap(existing)))
                /\ client_pc' = "done"
           ELSE /\ client_ret' = Some(Err)
                /\ client_pc' = "failed"
                /\ UNCHANGED server_playlists
    /\ UNCHANGED <<client_call, existing, fetch_all_songs, seen_ids, attempts,
                   batch_requests>>
    /\ UNCHANGED <<genVars, seqVars, call>>

\* create_playlist: get_playlists (which may fail) and the search for a
\* playlist of that name
CreatePlaylistGetPlaylists ==
    /\ \/ client_pc = "start" /\ Unwrap(client_call).fn = "create_playlist"
       \/ client_pc = "create_playlist"
    /\ \E ok \in BOOLEAN :
           LET found == IF ok
                        THEN playlists_named(server_playlists,
                                             Unwrap(client_call).name)
                        ELSE <<>>
           IN  IF found # <<>>
               THEN existing' = Some(found[1].id) /\ client_pc' = "delete_playlist"
               ELSE existing' = None /\ client_pc' = "create_request"
    /\ UNCHANGED <<client_call, server_playlists, fetch_all_songs, seen_ids,
                   attempts, batch_requests, client_ret>>
    /\ UNCHANGED <<genVars, seqVars, call>>

\* delete_playlist(&existing.id): the server deletes the playlist, or the
\* request fails and create_playlist only prints a warning.
DeletePlaylist ==
    /\ client_pc = "delete_playlist"
    /\ \E ok \in BOOLEAN :
           server_playlists' =
               IF ok
               THEN SelectSeq(server_playlists,
                              LAMBDA p : p.id # Unwrap(existing))
               ELSE server_playlists
    /\ client_pc' = "create_request"
    /\ UNCHANGED <<client_call, existing, fetch_all_songs, seen_ids, attempts,
                   batch_requests, client_ret>>
    /\ UNCHANGED <<genVars, seqVars, call>>

\* The createPlaylist request: the server adds a playlist of that name and
\* those songs and returns its id, or the request fails.
CreatePlaylistRequest ==
    /\ client_pc = "create_request"
    /\ \E ok \in BOOLEAN :
           IF ok
           THEN /\ server_playlists' =
                       Append(server_playlists,
                              ServerPlaylist(NewPlaylistId,
                                             Unwrap(client_call).name,
                                             Unwrap(client_call).song_ids))
                /\ client_ret' = Some(Ok(NewPlaylistId))
                /\ client_pc' = "done"
           ELSE /\ client_ret' = Some(Err)
                /\ client_pc' = "failed"
                /\ UNCHANGED server_playlists
    /\ UNCHANGED <<client_call, existing, fetch_all_songs, seen_ids, attempts,
                   batch_requests>>
    /\ UNCHANGED <<genVars, seqVars, call>>

ClientNext ==
    \/ FetchSongsSingle
    \/ FetchSongsBegin
    \/ FetchSongsBatch
    \/ FetchSongsReturn
    \/ CleanupGetPlaylists
    \/ UpdatePlaylist
    \/ CreatePlaylistGetPlaylists
    \/ DeletePlaylist
    \/ CreatePlaylistRequest

ClientSpec == ClientInit /\ [][ClientNext]_vars

\* The client is one thread running one method: a step that can be taken is
\* taken (every request returns).
ClientLiveSpec == ClientSpec /\ WF_vars(ClientNext)

-----------------------------------------------------------------------------
(* Properties of SubsonicClient (ClientSpec) *)

IsFetchSongs == IsSome(client_call) /\ Unwrap(client_call).fn = "fetch_songs"

FetchSongsReturned == IsFetchSongs /\ client_pc = "done"

\* The list fetch_songs returned.
FetchedSongs == Unwrap(client_ret).value

NoSongTwice(list) ==
    \A i, j \in 1..Len(list) : list[i] = list[j] => i = j

C26_UniqueAndAtMostCountAboveBatchSize ==
    (FetchSongsReturned /\ desired_count > max_per_request)
    => /\ NoSongTwice(FetchedSongs)
       /\ Len(FetchedSongs) <= desired_count

\* The loop's case: overlapping batches filled the list to exactly count.
C26_WitnessLoop ==
    /\ FetchSongsReturned
    /\ desired_count > max_per_request
    /\ Len(FetchedSongs) = desired_count
    /\ attempts >= 3

\* C27: fetch_songs always terminates; it issues at most max_attempts (20)
\* batch requests, and when the loop ends it returns the songs collected so
\* far, however few the server supplied.
C27_FetchSongsTerminates ==
    /\ [](IsFetchSongs => batch_requests <= max_attempts)
    /\ []((FetchSongsReturned /\ desired_count > max_per_request)
          => client_ret = Some(Ok(fetch_all_songs)))
    /\ <>(IsFetchSongs => client_pc \in {"done", "failed"})

\* C27 witness: fetch_songs returned fewer songs than asked for after
\* max_attempts batch requests.
C27_Witness ==
    /\ FetchSongsReturned
    /\ desired_count > max_per_request
    /\ batch_requests = max_attempts
    /\ Len(fetch_all_songs) < desired_count
    /\ fetch_all_songs # <<>>

IsCleanup ==
    /\ IsSome(client_call)
    /\ Unwrap(client_call).fn = "create_playlist_with_pattern_cleanup"

\* The server's playlists whose name starts with base_name_pattern.
MatchingNow ==
    matching_playlists(server_playlists, Unwrap(client_call).base_name_pattern)

HoldsNewNameAndSongs(p) ==
    /\ p.name = Unwrap(client_call).name
    /\ p.songs = Unwrap(client_call).song_ids

\* C28 (as stated): after create_playlist_with_pattern_cleanup succeeds,
\* exactly one playlist whose name starts (case-insensitively) with
\* base_name_pattern remains, and it holds the new name and song ids.
C28_OneMatchingPlaylist ==
    (IsCleanup /\ client_pc = "done")
    => /\ Len(MatchingNow) = 1
       /\ HoldsNewNameAndSongs(MatchingNow[1])

\* C28 witness: the call succeeded by updating the first matching playlist
\* while the server held another playlist matching the pattern.
C28_Witness ==
    /\ IsCleanup
    /\ client_pc = "done"
    /\ IsSome(existing)
    /\ client_ret = Some(Ok(Unwrap(existing)))
    /\ \E i \in 1..Len(MatchingNow) : MatchingNow[i].id # Unwrap(existing)

\* What the update path guarantees: the first matching playlist holds the
\* new name and song ids, and no playlist was added or removed.
C28_FirstMatchReplaced ==
    (IsCleanup /\ client_pc = "done" /\ client_ret # Some(Ok(NewPlaylistId)))
    => /\ IsSome(existing)
       /\ \E i \in 1..Len(server_playlists) :
              /\ server_playlists[i].id = Unwrap(existing)
              /\ HoldsNewNameAndSongs(server_playlists[i])
       /\ \A i \in 1..Len(server_playlists) : server_playlists[i].id = i

\* create_playlist returned Ok (called directly or by the cleanup method).
CreatePlaylistSucceeded ==
    /\ client_pc = "done"
    /\ ~IsFetchSongs
    /\ client_ret = Some(Ok(NewPlaylistId))

\* C29 (as stated): whenever create_playlist(name, ids) returns successfully
\* the server holds exactly one playlist named name, the newly created one.
C29_CreateOverwrites ==
    CreatePlaylistSucceeded
    => LET named == playlists_named(server_playlists, Unwrap(client_call).name)
       IN  /\ Len(named) = 1
           /\ named[1].id = NewPlaylistId

\* C29 witness: create_playlist succeeded and an older playlist of the same
\* name is still on the server.
C29_Witness ==
    /\ CreatePlaylistSucceeded
    /\ \E i \in 1..Len(server_playlists) :
           /\ server_playlists[i].name = Unwrap(client_call).name
           /\ server_playlists[i].id # NewPlaylistId

\* What create_playlist guarantees: the new playlist is on the server, once,
\* with the name and the song ids.
C29_NewPlaylistCreated ==
    CreatePlaylistSucceeded
    => \E i \in 1..Len(server_playlists) :
           /\ server_playlists[i].id = NewPlaylistId
           /\ HoldsNewNameAndSongs(server_playlists[i])
           /\ \A j \in 1..Len(server_playlists) :
                  server_playlists[j].id = NewPlaylistId => j = i

\* The other outcome of C29's case: the older playlist of that name was
\* deleted and only the new one remains.
C29_WitnessOverwritten ==
    /\ CreatePlaylistSucceeded
    /\ Len(server_playlists) = MaxPlaylists
    /\ Len(playlists_named(server_playlists, Unwrap(client_call).name)) = 1

=============================================================================
